---------------------------- MODULE Spec2Model ----------------------------
(***************************************************************************)
(* A model of the UPnP control-point client of home-assistant-dlna-dmr:    *)
(* UpnpStateVariable, UpnpService (GENA subscription lifecycle, NOTIFY     *)
(* processing) from upnp_client.py and the notification registry           *)
(* UpnpNotifyView from home_assistant_dlna_dmr/dlna_dmr.py.                *)
(*                                                                         *)
(* Coroutines are modelled as tasks: a call step runs the handler up to    *)
(* its first suspension point (the HTTP request), a response step runs the *)
(* continuation.  Every step records in `last` what the handler did (its   *)
(* outcome, the service's subscription id before and after, whether a      *)
(* request was issued, the callbacks fired), so the properties of a        *)
(* handler are state predicates over `last`.                               *)
(***************************************************************************)
EXTENDS Integers, Sequences, FiniteSets, TLC

(***************************************************************************)
(* Bounds of the model.                                                    *)
(***************************************************************************)
MaxClock == 2
MaxTasks == 2
MaxEventLen == 1
MaxBatch == 2

(***************************************************************************)
(* Python values.  A native value is tagged with its Python type; None is  *)
(* a value of its own.  bool is a subclass of int in Python, which the     *)
(* isinstance test of the schema sees.                                     *)
(***************************************************************************)
PyNone == [ty |-> "none", i |-> 0, s |-> ""]
PyInt(n) == [ty |-> "int", i |-> n, s |-> ""]
PyBool(b) == [ty |-> "bool", i |-> IF b THEN 1 ELSE 0, s |-> ""]
PyStr(x) == [ty |-> "str", i |-> 0, s |-> x]

\* None where a str is expected (a missing header, a missing attribute).
None == "<None>"

\* Python truthiness of an optional str: None and '' are falsy.
Truthy(x) == x # None /\ x # ""

(***************************************************************************)
(* The services of the device and their declared state variables, as       *)
(* _state_variable_parse_xml delivers them for the RenderingControl and    *)
(* AVTransport descriptions the tests use.                                 *)
(***************************************************************************)
Services == {"RC", "AVT"}

StateVars ==
    { <<"RC", "Volume">>, <<"RC", "Mute">>,
      <<"RC", "A_ARG_TYPE_InstanceID">>, <<"RC", "A_ARG_TYPE_Channel">>,
      <<"AVT", "TransportState">>, <<"AVT", "CurrentTrackDuration">>,
      <<"AVT", "A_ARG_TYPE_InstanceID">>, <<"AVT", "AVTransportURI">> }

VolumeMin == 0
VolumeMax == 100

TypeInfo(sv) ==
    CASE sv = <<"RC", "Volume">> ->
           [data_type_python |-> "int", has_range |-> TRUE,
            min |-> VolumeMin, max |-> VolumeMax,
            has_allowed |-> FALSE, allowed_values |-> {}]
      [] sv = <<"RC", "Mute">> ->
           [data_type_python |-> "bool", has_range |-> FALSE, min |-> 0, max |-> 0,
            has_allowed |-> FALSE, allowed_values |-> {}]
      [] sv[2] = "A_ARG_TYPE_InstanceID" ->
           [data_type_python |-> "int", has_range |-> FALSE, min |-> 0, max |-> 0,
            has_allowed |-> FALSE, allowed_values |-> {}]
      [] sv = <<"RC", "A_ARG_TYPE_Channel">> ->
           [data_type_python |-> "str", has_range |-> FALSE, min |-> 0, max |-> 0,
            has_allowed |-> TRUE, allowed_values |-> {"Master", "LF", "RF"}]
      [] sv = <<"AVT", "TransportState">> ->
           [data_type_python |-> "str", has_range |-> FALSE, min |-> 0, max |-> 0,
            has_allowed |-> TRUE,
            allowed_values |-> {"STOPPED", "PLAYING", "PAUSED_PLAYBACK"}]
      [] OTHER ->
           [data_type_python |-> "str", has_range |-> FALSE, min |-> 0, max |-> 0,
            has_allowed |-> FALSE, allowed_values |-> {}]

\* UpnpService.state_variable(name): the variable, or None for an unknown name.
HasStateVariable(svc, name) == <<svc, name>> \in StateVars

(***************************************************************************)
(* The voluptuous schema of a state variable: vol.All(type, In, Range),    *)
(* each validator present only when declared.                              *)
(***************************************************************************)
IsInstance(value, data_type) ==
    CASE data_type = "int" -> value.ty \in {"int", "bool"}
      [] data_type = "bool" -> value.ty = "bool"
      [] OTHER -> value.ty = "str"

InAllowed(value, allowed_values) ==
    value.ty = "str" /\ value.s \in allowed_values

InRangeNoCheck(value, min, max) == TRUE

InRangeExclusive(value, min, max) == min < value.i /\ value.i < max

InRange(value, min, max) == min <= value.i /\ value.i <= max

SchemaAccepts(sv, value) ==
    LET info == TypeInfo(sv) IN
    /\ IsInstance(value, info.data_type_python)
    /\ info.has_allowed => InAllowed(value, info.allowed_values)
    /\ info.has_range => InRange(value, info.min, info.max)

\* validate_value: passes, or raises vol.error.MultipleInvalid.
validate_value(sv, value) == SchemaAccepts(sv, value)

(***************************************************************************)
(* Wire (UPnP) strings and the coercions.  int() and str() are the base-10 *)
(* conversions, given as tables over the strings the model sends.          *)
(***************************************************************************)
DecimalStrings ==
    { <<"-10", 0 - 10>>, <<"0", 0>>, <<"1", 1>>, <<"2", 2>>, <<"3", 3>>,
      <<"10", 10>>, <<"20", 20>>, <<"100", 100>>, <<"110", 110>>,
      <<"150", 150>> }

IsDecimal(w) == \E p \in DecimalStrings : p[1] = w

ParseIntZero(w) == 0

ParseInt(w) == (CHOOSE p \in DecimalStrings : p[1] = w)[2]

FormatInt(n) == (CHOOSE p \in DecimalStrings : p[2] = n)[1]

\* coerce_python: [ok, err, value].  int(None) is a TypeError, int of a
\* non-numeric string a ValueError; bool compares with '1'; str(None) is 'None'.
coerce_python(sv, upnp_value) ==
    LET data_type == TypeInfo(sv).data_type_python IN
    CASE data_type = "bool" ->
           [ok |-> TRUE, err |-> "", value |-> PyBool(upnp_value = "1")]
      [] data_type = "int" ->
           IF upnp_value = None
           THEN [ok |-> FALSE, err |-> "TypeError", value |-> PyNone]
           ELSE IF IsDecimal(upnp_value)
           THEN [ok |-> TRUE, err |-> "", value |-> PyInt(ParseInt(upnp_value))]
           ELSE [ok |-> FALSE, err |-> "ValueError", value |-> PyNone]
      [] OTHER ->
           [ok |-> TRUE, err |-> "",
            value |-> PyStr(IF upnp_value = None THEN "None" ELSE upnp_value)]

\* coerce_upnp: '1'/'0' for a bool variable (by truthiness), str(value) otherwise.
coerce_upnp(sv, value) ==
    LET data_type == TypeInfo(sv).data_type_python IN
    IF data_type = "bool"
    THEN IF (value.ty \in {"int", "bool"} /\ value.i # 0)
            \/ (value.ty = "str" /\ value.s # "")
         THEN "1" ELSE "0"
    ELSE CASE value.ty = "none" -> "None"
           [] value.ty = "bool" -> IF value.i = 1 THEN "True" ELSE "False"
           [] value.ty = "int" -> FormatInt(value.i)
           [] OTHER -> value.s


(***************************************************************************)
(* UpnpFactory: building a service from its SCPD.  A document is what a    *)
(* fetch delivers: not well-formed, a device description listing services, *)
(* or an SCPD declaring state variables <<name, dataType>> and actions     *)
(* <<name, names of the related state variables of its arguments>>.        *)
(***************************************************************************)
STATE_VARIABLE_TYPE_MAPPING ==
    { <<"i2", "int">>, <<"i4", "int">>, <<"ui2", "int">>, <<"ui4", "int">>,
      <<"string", "str">>, <<"boolean", "bool">> }

KnownType(data_type) == \E m \in STATE_VARIABLE_TYPE_MAPPING : m[1] = data_type

PythonType(data_type) ==
    (CHOOSE m \in STATE_VARIABLE_TYPE_MAPPING : m[1] = data_type)[2]

DocXmlError == [kind |-> "xml_error", services |-> <<>>, vars |-> <<>>, actions |-> <<>>]

DeviceDescription(services) ==
    [kind |-> "device", services |-> services, vars |-> <<>>, actions |-> <<>>]

Scpd(vars, actions) ==
    [kind |-> "scpd", services |-> <<>>, vars |-> vars, actions |-> actions]

\* create_state_variables: the dict of the variables, or KeyError from
\* STATE_VARIABLE_TYPE_MAPPING[data_type] at the first unknown dataType.
create_state_variablesSkipsUnknown(scpd) ==
    [err |-> "",
     state_vars |-> {<<scpd.vars[i][1], PythonType(scpd.vars[i][2])>> :
                       i \in {k \in DOMAIN scpd.vars : KnownType(scpd.vars[k][2])}}]

create_state_variables(scpd) ==
    IF \E i \in DOMAIN scpd.vars : ~KnownType(scpd.vars[i][2])
    THEN [err |-> "KeyError", state_vars |-> {}]
    ELSE [err |-> "",
          state_vars |-> {<<scpd.vars[i][1], PythonType(scpd.vars[i][2])>> :
                            i \in DOMAIN scpd.vars}]

\* create_actions: the dict of the actions, or KeyError from
\* state_variables[state_variable_name] at the first unresolved reference.
create_actions(scpd, state_vars) ==
    LET names == {v[1] : v \in state_vars} IN
    IF \E i \in DOMAIN scpd.actions :
          \E j \in DOMAIN scpd.actions[i][2] : scpd.actions[i][2][j] \notin names
    THEN [err |-> "KeyError", actions |-> {}]
    ELSE [err |-> "", actions |-> {scpd.actions[i][1] : i \in DOMAIN scpd.actions}]

\* create_service: [err, service]; the service keeps what it was built from.
NoBuiltService ==
    [svc |-> "", state_variables |-> {}, actions |-> {}, scpd |-> DocXmlError]

create_service(svc, scpd) ==
    LET v == create_state_variables(scpd)
        a == create_actions(scpd, v.state_vars)
    IN
    IF v.err # "" THEN [err |-> v.err, service |-> NoBuiltService]
    ELSE IF a.err # "" THEN [err |-> a.err, service |-> NoBuiltService]
    ELSE [err |-> "",
          service |-> [svc |-> svc, state_variables |-> v.state_vars,
                       actions |-> a.actions, scpd |-> scpd]]

(***************************************************************************)
(* UpnpAction: the declared arguments, each bound to a state variable of   *)
(* its service, and the request and response of a call.  Keyword arguments *)
(* and the child elements of a body are sequences of <<name, value>>.      *)
(***************************************************************************)
Argument(name, direction, related_state_variable) ==
    [name |-> name, direction |-> direction,
     related_state_variable |-> related_state_variable]

NoArgument == Argument("", "", <<"", "">>)

\* UpnpAction._args of the actions of a service, in declaration order.
ActionArgs(svc, action) ==
    CASE svc = "RC" /\ action = "SetVolume" ->
           << Argument("InstanceID", "in", <<"RC", "A_ARG_TYPE_InstanceID">>),
              Argument("Channel", "in", <<"RC", "A_ARG_TYPE_Channel">>),
              Argument("DesiredVolume", "in", <<"RC", "Volume">>) >>
      [] svc = "RC" /\ action = "GetVolume" ->
           << Argument("InstanceID", "in", <<"RC", "A_ARG_TYPE_InstanceID">>),
              Argument("Channel", "in", <<"RC", "A_ARG_TYPE_Channel">>),
              Argument("CurrentVolume", "out", <<"RC", "Volume">>) >>
      [] svc = "AVT" /\ action = "SetAVTransportURI" ->
           << Argument("InstanceID", "in", <<"AVT", "A_ARG_TYPE_InstanceID">>),
              Argument("CurrentURI", "in", <<"AVT", "AVTransportURI">>) >>
      [] OTHER -> <<>>

\* UpnpService.actions: the names the service declares.
ActionNames(svc) ==
    IF svc = "RC" THEN {"SetVolume", "GetVolume"}
    ELSE {"SetAVTransportURI"}

in_arguments(svc, action) ==
    SelectSeq(ActionArgs(svc, action), LAMBDA arg : arg.direction = "in")

out_arguments(svc, action) ==
    SelectSeq(ActionArgs(svc, action), LAMBDA arg : arg.direction = "out")

\* argument(name, direction): the first argument of that name and direction,
\* or None (NoArgument) when there is none.
argumentAnyDirection(svc, action, name, direction) ==
    LET args == ActionArgs(svc, action)
        hits == {i \in DOMAIN args : args[i].name = name}
    IN IF hits = {} THEN NoArgument
       ELSE args[CHOOSE i \in hits : \A j \in hits : i <= j]

argument(svc, action, name, direction) ==
    LET args == ActionArgs(svc, action)
        hits == {i \in DOMAIN args :
                    args[i].name = name /\ args[i].direction = direction}
    IN IF hits = {} THEN NoArgument
       ELSE args[CHOOSE i \in hits : \A j \in hits : i <= j]

\* kwargs: `name in kwargs` and kwargs[name].
HasKw(kwargs, name) == \E i \in DOMAIN kwargs : kwargs[i][1] = name

KwValue(kwargs, name) ==
    IF HasKw(kwargs, name)
    THEN kwargs[CHOOSE i \in DOMAIN kwargs : kwargs[i][1] = name][2]
    ELSE PyNone

\* validate_arguments: the in-arguments in declaration order; kwargs[name] of
\* a missing argument raises KeyError, an invalid value MultipleInvalid.
\* The error of the first argument that fails, "" when none does.
validate_argumentsSkipped(svc, action, kwargs) == ""

validate_arguments(svc, action, kwargs) ==
    LET ins == in_arguments(svc, action)
        bad == {i \in DOMAIN ins :
                   \/ ~HasKw(kwargs, ins[i].name)
                   \/ ~validate_value(ins[i].related_state_variable,
                                      KwValue(kwargs, ins[i].name))}
    IN IF bad = {} THEN ""
       ELSE LET first == CHOOSE i \in bad : \A j \in bad : i <= j IN
            IF ~HasKw(kwargs, ins[first].name) THEN "KeyError"
            ELSE "MultipleInvalid"

\* _format_request_args: validate, then one "<name>text</name>" per
\* in-argument, in declaration order, the text being coerce_upnp of the value
\* as it is, without escaping.  The elements as <<name, text>>.
format_request_args(svc, action, kwargs) ==
    LET ins == in_arguments(svc, action) IN
    [i \in DOMAIN ins |->
        <<ins[i].name,
          coerce_upnp(ins[i].related_state_variable, KwValue(kwargs, ins[i].name))>>]

\* create_request: [err, body]; the body is the rendered argument elements.
create_request(svc, action, kwargs) ==
    LET err == validate_arguments(svc, action, kwargs) IN
    IF err # "" THEN [err |-> err, body |-> <<>>]
    ELSE [err |-> "", body |-> format_request_args(svc, action, kwargs)]

\* What an XML parser reads back from the text written between the tags of
\* an element: text with a bare '&' is not well-formed, text that is itself an
\* element becomes a child and leaves the element's text None, an entity is
\* decoded, any other text reads back as written.
XmlReadText(raw) ==
    CASE raw = "http://h/a?x=1&y=2" -> [well_formed |-> FALSE, text |-> None]
      [] raw = "<DIDL-Lite/>" -> [well_formed |-> TRUE, text |-> None]
      [] raw = "a&amp;b" -> [well_formed |-> TRUE, text |-> "a&b"]
      [] OTHER -> [well_formed |-> TRUE, text |-> raw]

\* ET.fromstring of a rendered request and the <<tag, text>> of the children
\* of the action element.
ReadRequest(body) ==
    [well_formed |-> \A i \in DOMAIN body : XmlReadText(body[i][2]).well_formed,
     children |-> [i \in DOMAIN body |-> <<body[i][1], XmlReadText(body[i][2]).text>>]]

\* The body of a response: not well-formed, or an envelope whose Body may
\* hold a Fault element (with or without children) and may hold the
\* <action>Response element with its children <<tag, text>>.
SoapBody(fault, has_response, children) ==
    [kind |-> "soap", fault |-> fault, has_response |-> has_response,
     children |-> children]

SoapXmlError == [kind |-> "xml_error", fault |-> "none", has_response |-> FALSE,
                 children |-> <<>>]

\* `if xml.find(query, NS):` the truth value of an Element is whether it has
\* children; of None, False.
FaultFound(fault) == fault = "children"

\* The Argument objects of the actions: one _value each, shared by all calls
\* of the action.
ArgSlots ==
    UNION {UNION {{<<svc, action, ActionArgs(svc, action)[i].name>> :
                      i \in DOMAIN ActionArgs(svc, action)} :
                  action \in ActionNames(svc)} :
           svc \in Services}

\* `args[name] = arg.value` right after `arg.upnp_value = arg_xml.text`: the
\* getter reads the _value just written (values: the slots before the write).
ArgumentValueBeforeWrite(values, written, slot) == values[slot]

ArgumentValue(values, written, slot) == written[slot]

\* _parse_response_args over the children, from the i-th on: [err, args,
\* values], args the <<name, value>> pairs assigned to the dict so far, in
\* order, values the _value of every Argument.  Each child is written to its
\* argument (`arg.upnp_value = arg_xml.text`) and read back (`arg.value`).
RECURSIVE ParseChildren(_, _, _, _, _, _)
ParseChildren(svc, action, children, i, args, values) ==
    IF i > Len(children) THEN [err |-> "", args |-> args, values |-> values]
    ELSE LET name == children[i][1]
             arg == argument(svc, action, name, "out")
         IN
         IF arg = NoArgument
         THEN [err |-> "AttributeError", args |-> args, values |-> values]
         ELSE LET c == coerce_python(arg.related_state_variable, children[i][2])
                  slot == <<svc, action, name>>
                  written == [values EXCEPT ![slot] = c.value]
              IN
              IF ~c.ok THEN [err |-> c.err, args |-> args, values |-> values]
              ELSE ParseChildren(svc, action, children, i + 1,
                                 Append(args, <<name, ArgumentValue(values, written, slot)>>),
                                 written)

\* The dict a sequence of assignments builds: the last value of each key.
DictOf(pairs) ==
    {pairs[i] : i \in {k \in DOMAIN pairs :
                          \A j \in DOMAIN pairs : pairs[j][1] = pairs[k][1] => j <= k}}

\* parse_response: [err, has_result, result, values].
parse_response(svc, action, body, values) ==
    LET fail(err, left) == [err |-> err, has_result |-> FALSE, result |-> {},
                            values |-> left]
    IN
    IF body.kind = "xml_error" THEN fail("ParseError", values)
    ELSE IF FaultFound(body.fault) THEN fail("RuntimeError", values)
    ELSE IF ~body.has_response THEN fail("AttributeError", values)
    ELSE LET r == ParseChildren(svc, action, body.children, 1, <<>>, values) IN
         IF r.err # "" THEN fail(r.err, r.values)
         ELSE [err |-> "", has_result |-> TRUE, result |-> DictOf(r.args),
               values |-> r.values]

\* The upnp_value getter: coerce_upnp(self.value).
get_upnp_value(sv, values) == coerce_upnp(sv, values[sv])

(***************************************************************************)
(* Inputs of the environment.                                              *)
(***************************************************************************)
\* Subscription ids a device may answer or a NOTIFY may carry; '' is the
\* empty header value.
Sids == {"", "uuid:1", "uuid:2"}

SidsOrNone == Sids \cup {None}

\* What _async_do_http_request can deliver: a response (status, SID header or
\* none) or one of the two errors it re-raises.  A request whose SID header
\* value is None may also fail inside the HTTP library with a TypeError.
HttpResponses(sids) ==
    [kind : {"response"}, status : {200, 412}, sid : sids \cup {None}, err : {""}]

HttpErrors ==
    [kind : {"error"}, status : {0}, sid : {None},
     err : {"TimeoutError", "ClientError"}]

HttpTypeError == [kind |-> "error", status |-> 0, sid |-> None, err |-> "TypeError"]

\* The bodies of a NOTIFY: not well-formed XML, no LastChange element, or a
\* LastChange event listing (variable name, val attribute) pairs in order.
XmlError == [kind |-> "xml_error", event |-> <<>>]
NoLastChange == [kind |-> "no_last_change", event |-> <<>>]
LastChange(event) == [kind |-> "last_change", event |-> event]

RECURSIVE SeqsUpTo(_, _)
SeqsUpTo(S, n) ==
    IF n = 0 THEN {<<>>}
    ELSE LET shorter == SeqsUpTo(S, n - 1) IN
         shorter \cup {Append(q, x) : q \in shorter, x \in S}

EventBodies(pairs, n) == {LastChange(e) : e \in SeqsUpTo(pairs, n)}

(***************************************************************************)
(* State.                                                                  *)
(***************************************************************************)
VARIABLES
    subscription_sid,          \* UpnpService._subscription_sid, per service
    on_state_variable_change,  \* whether the change callback is installed
    sv_value,                  \* UpnpStateVariable._value, per variable
    sv_updated_at,             \* UpnpStateVariable._updated_at (NoTime: None)
    now,                       \* what utcnow() returns
    registered_services,       \* UpnpNotifyView._registered_services
    backlog,                   \* UpnpNotifyView._backlog
    tasks,                     \* the coroutines suspended at an await
    last,                      \* what the last step did
    argument_value,            \* UpnpAction.Argument._value, per argument
    dmr_services,              \* whether DlnaDmrDevice._services is filled
    dmr_device,                \* whether DlnaDmrDevice._device is set
    is_connected               \* DlnaDmrDevice._is_connected

\* The fields of the media player entity.
device_vars == <<dmr_services, dmr_device, is_connected>>

vars == <<subscription_sid, on_state_variable_change, sv_value, sv_updated_at,
          now, registered_services, backlog, tasks, last,
         argument_value, dmr_services, dmr_device, is_connected>>

NoTime == 0
NoService == "<no service>"
NoItem == [present |-> FALSE, sid |-> None, body |-> NoLastChange]
Item(sid, body) == [present |-> TRUE, sid |-> sid, body |-> body]

\* A suspended coroutine: the handler, its service and its locals.
Task(op, svc) ==
    [op |-> op, svc |-> svc, force |-> FALSE, local_sid |-> None, hdr_sid |-> None,
     action |-> "", pending |-> <<>>, built |-> <<>>, body |-> NoLastChange,
     phase |-> ""]

\* tasks without its i-th element.
Remove(q, i) == SubSeq(q, 1, i - 1) \o SubSeq(q, i + 1, Len(q))

\* The record of a step: the handler, how it ended ("none": suspended at an
\* await), and what it did.
Obs(op, svc) ==
    [op |-> op, svc |-> svc, phase |-> "call",
     outcome |-> "return", error |-> "", ret |-> None,
     status |-> 0, force |-> FALSE, after_unsubscribe |-> FALSE,
     pre_sid |-> None, post_sid |-> None, requested |-> FALSE, req_sid |-> None,
     http |-> "", http_status |-> 0, http_sid |-> None, http_err |-> "",
     notify_sid |-> None, body_kind |-> "", held |-> FALSE,
     var |-> "", arg |-> PyNone, upnp_arg |-> None, stored |-> FALSE,
     callbacks |-> <<>>, notified |-> <<>>,
     action |-> "", kwargs |-> <<>>, request |-> <<>>, response |-> SoapXmlError,
     parsed |-> FALSE, has_result |-> FALSE, result |-> {},
     doc |-> DocXmlError, services |-> <<>>]

Init ==
    /\ subscription_sid = [s \in Services |-> None]
    /\ on_state_variable_change = [s \in Services |-> FALSE]
    /\ sv_value = [v \in StateVars |-> PyNone]
    /\ sv_updated_at = [v \in StateVars |-> NoTime]
    /\ now = 1
    /\ registered_services = [sid \in Sids |-> NoService]
    /\ backlog = [sid \in Sids |-> NoItem]
    /\ tasks = <<>>
    /\ last = Obs("init", NoService)
    /\ argument_value = [slot \in ArgSlots |-> PyNone]
    /\ dmr_services = FALSE
    /\ dmr_device = FALSE
    /\ is_connected = FALSE

\* Time passes.
Tick ==
    /\ now < MaxClock
    /\ now' = now + 1
    /\ last' = Obs("tick", NoService)
    /\ UNCHANGED <<subscription_sid, on_state_variable_change, argument_value,
                   device_vars, sv_value,
                   sv_updated_at, registered_services, backlog, tasks>>

\* on_state_variable_change setter.
SetOnStateVariableChange(svc) ==
    /\ ~on_state_variable_change[svc]
    /\ on_state_variable_change' = [on_state_variable_change EXCEPT ![svc] = TRUE]
    /\ last' = Obs("on_state_variable_change", svc)
    /\ UNCHANGED <<subscription_sid, argument_value, device_vars, sv_value,
                   sv_updated_at, now, registered_services, backlog, tasks>>

(***************************************************************************)
(* UpnpStateVariable: the two setters.                                     *)
(***************************************************************************)
\* The result of the value setter on (value, updated_at) of one variable:
\* validate, then store and timestamp.
ValueSetterUnchecked(sv, value, cur, t) ==
    [ok |-> TRUE, err |-> "", value |-> value, updated_at |-> t]

ValueSetter(sv, value, cur, t) ==
    IF validate_value(sv, value)
    THEN [ok |-> TRUE, err |-> "", value |-> value, updated_at |-> t]
    ELSE [ok |-> FALSE, err |-> "MultipleInvalid",
          value |-> cur.value, updated_at |-> cur.updated_at]

\* The upnp_value setter: coerce, then the value setter.
UpnpValueSetterUncoerced(sv, upnp_value, cur, t) ==
    ValueSetter(sv, PyStr(upnp_value), cur, t)

UpnpValueSetter(sv, upnp_value, cur, t) ==
    LET c == coerce_python(sv, upnp_value) IN
    IF c.ok THEN ValueSetter(sv, c.value, cur, t)
    ELSE [ok |-> FALSE, err |-> c.err,
          value |-> cur.value, updated_at |-> cur.updated_at]

Current(sv) == [value |-> sv_value[sv], updated_at |-> sv_updated_at[sv]]

\* state_var.value = value
SetValue(sv, value) ==
    LET r == ValueSetter(sv, value, Current(sv), now) IN
    /\ sv_value' = [sv_value EXCEPT ![sv] = r.value]
    /\ sv_updated_at' = [sv_updated_at EXCEPT ![sv] = r.updated_at]
    /\ last' = [Obs("value", sv[1]) EXCEPT
                  !.var = sv[2], !.arg = value, !.stored = r.ok,
                  !.outcome = IF r.ok THEN "return" ELSE "raise",
                  !.error = r.err]
    /\ UNCHANGED <<subscription_sid, on_state_variable_change, argument_value,
                   device_vars, now,
                   registered_services, backlog, tasks>>

\* state_var.validate_value(value): passes or raises, and stores nothing.
ValidateValue(sv, value) ==
    LET ok == validate_value(sv, value) IN
    /\ last' = [Obs("validate_value", sv[1]) EXCEPT
                  !.var = sv[2], !.arg = value,
                  !.outcome = IF ok THEN "return" ELSE "raise",
                  !.error = IF ok THEN "" ELSE "MultipleInvalid"]
    /\ UNCHANGED <<subscription_sid, on_state_variable_change, argument_value,
                   device_vars, sv_value,
                   sv_updated_at, now, registered_services, backlog, tasks>>

\* state_var.upnp_value = upnp_value
SetUpnpValue(sv, upnp_value) ==
    LET r == UpnpValueSetter(sv, upnp_value, Current(sv), now) IN
    /\ sv_value' = [sv_value EXCEPT ![sv] = r.value]
    /\ sv_updated_at' = [sv_updated_at EXCEPT ![sv] = r.updated_at]
    /\ last' = [Obs("upnp_value", sv[1]) EXCEPT
                  !.var = sv[2], !.upnp_arg = upnp_value, !.stored = r.ok,
                  !.outcome = IF r.ok THEN "return" ELSE "raise",
                  !.error = r.err]
    /\ UNCHANGED <<subscription_sid, on_state_variable_change, argument_value,
                   device_vars, now,
                   registered_services, backlog, tasks>>

(***************************************************************************)
(* UpnpService.on_notify.                                                  *)
(***************************************************************************)
\* The test that lets a NOTIFY pass: notify_sid != self._subscription_sid
\* returns early.
SidMatchesAlways(notify_sid, sid) == TRUE

SidMatches(notify_sid, sid) == notify_sid = sid

\* The loop over the variables of the event.  st: the variables' values and
\* timestamps so far, the list changed_state_variables, and the exception that
\* ended the loop ("" for none).  A validation failure is caught and logged;
\* an unknown name (AttributeError on None) and a coercion failure are not.
RECURSIVE ApplyEvent(_, _, _, _)
ApplyEvent(svc, event, st, t) ==
    IF event = <<>> \/ st.err # "" THEN st
    ELSE
      LET name == Head(event)[1]
          value == Head(event)[2]
          sv == <<svc, name>>
      IN
      IF ~HasStateVariable(svc, name)
      THEN [st EXCEPT !.err = "AttributeError"]
      ELSE
        LET r == UpnpValueSetter(sv, value,
                   [value |-> st.value[sv], updated_at |-> st.updated_at[sv]], t)
        IN
        IF ~r.ok /\ r.err # "MultipleInvalid"
        THEN [st EXCEPT !.err = r.err]
        ELSE ApplyEvent(svc, Tail(event),
               [st EXCEPT !.value[sv] = r.value,
                          !.updated_at[sv] = r.updated_at,
                          !.changed = Append(@, name)],
               t)

\* on_notify(headers, body) of service svc in the state (sid, values, stamps):
\* whether the NOTIFY passed the SID test, the exception raised ("" for none),
\* the variables afterwards and the batches handed to the change callback.
on_notifyRestampsAll(svc, notify_sid, body, sid, callback, values, stamps, t) ==
    [passed |-> notify_sid = sid, err |-> "", value |-> values,
     updated_at |-> [v \in DOMAIN stamps |-> t], callbacks |-> <<>>]

on_notify(svc, notify_sid, body, sid, callback, values, stamps, t) ==
    LET same == [passed |-> FALSE, err |-> "", value |-> values,
                 updated_at |-> stamps, callbacks |-> <<>>]
    IN
    IF ~SidMatches(notify_sid, sid) THEN same
    ELSE IF body.kind = "xml_error"
    THEN [same EXCEPT !.passed = TRUE, !.err = "ParseError"]
    ELSE IF body.kind = "no_last_change"
    THEN [same EXCEPT !.passed = TRUE]
    ELSE
      LET st == ApplyEvent(svc, body.event,
                  [value |-> values, updated_at |-> stamps,
                   changed |-> <<>>, err |-> ""], t)
      IN
      [passed |-> TRUE, err |-> st.err, value |-> st.value,
       updated_at |-> st.updated_at,
       callbacks |-> IF st.err = "" /\ callback THEN <<st.changed>> ELSE <<>>]

\* A NOTIFY handed to the service directly.
OnNotify(svc, notify_sid, body) ==
    LET r == on_notify(svc, notify_sid, body, subscription_sid[svc],
                       on_state_variable_change[svc], sv_value, sv_updated_at, now)
    IN
    /\ sv_value' = r.value
    /\ sv_updated_at' = r.updated_at
    /\ last' = [Obs("on_notify", svc) EXCEPT
                  !.notify_sid = notify_sid, !.body_kind = body.kind,
                  !.pre_sid = subscription_sid[svc],
                  !.post_sid = subscription_sid[svc],
                  !.outcome = IF r.err = "" THEN "return" ELSE "raise",
                  !.error = r.err,
                  !.callbacks = r.callbacks,
                  !.notified = <<[svc |-> svc, sid |-> notify_sid,
                                  body |-> body, passed |-> r.passed]>>]
    /\ UNCHANGED <<subscription_sid, on_state_variable_change, argument_value,
                   device_vars, now,
                   registered_services, backlog, tasks>>

(***************************************************************************)
(* UpnpService.async_subscribe / async_unsubscribe.                        *)
(***************************************************************************)
\* The coroutines in flight, in the order they were started.
TaskIds == DOMAIN tasks

CanStart == Len(tasks) < MaxTasks

InFlight(op, svc) == \E t \in TaskIds : tasks[t].op = op /\ tasks[t].svc = svc

\* `if self._subscription_sid:` of async_subscribe.
AlreadySubscribedNever(sid) == FALSE

AlreadySubscribed(sid) == Truthy(sid)

\* Call of async_subscribe(callback_uri), up to the SUBSCRIBE request.
AsyncSubscribeCall(svc) ==
    LET sid == subscription_sid[svc]
        o == [Obs("async_subscribe", svc) EXCEPT
                !.pre_sid = sid, !.post_sid = sid,
                !.after_unsubscribe =
                    /\ last.op = "async_unsubscribe" /\ last.svc = svc
                    /\ last.phase = "resume" /\ ~last.force
                    /\ last.http = "response" /\ last.http_status = 200]
    IN
    /\ UNCHANGED <<subscription_sid, on_state_variable_change, argument_value,
                   device_vars, sv_value,
                   sv_updated_at, now, registered_services, backlog>>
    /\ IF AlreadySubscribed(sid)
       THEN /\ tasks' = tasks
            /\ last' = [o EXCEPT !.outcome = "raise", !.error = "AlreadySubscribed"]
       ELSE /\ CanStart
            /\ tasks' = Append(tasks, Task("async_subscribe", svc))
            /\ last' = [o EXCEPT !.outcome = "none", !.requested = TRUE]

\* What async_subscribe does with the answer: [raise, ret, store, sid].
SubscribeResultIgnoresStatus(r) ==
    IF r.kind = "error"
    THEN [error |-> r.err, ret |-> None, store |-> FALSE]
    ELSE IF r.sid = None
    THEN [error |-> "", ret |-> None, store |-> FALSE]
    ELSE [error |-> "", ret |-> r.sid, store |-> TRUE]

SubscribeResultNoStore(r) ==
    IF r.kind = "error"
    THEN [error |-> r.err, ret |-> None, store |-> FALSE]
    ELSE IF r.status # 200 \/ r.sid = None
    THEN [error |-> "", ret |-> None, store |-> FALSE]
    ELSE [error |-> "", ret |-> r.sid, store |-> FALSE]

SubscribeResult(r) ==
    IF r.kind = "error"
    THEN [error |-> r.err, ret |-> None, store |-> FALSE]
    ELSE IF r.status # 200
    THEN [error |-> "", ret |-> None, store |-> FALSE]
    ELSE IF r.sid = None
    THEN [error |-> "", ret |-> None, store |-> FALSE]
    ELSE [error |-> "", ret |-> r.sid, store |-> TRUE]

\* The continuation of async_subscribe once the request is answered.
AsyncSubscribeResume(t, r) ==
    LET svc == tasks[t].svc
        sid == subscription_sid[svc]
        x == SubscribeResult(r)
        new == IF x.store THEN x.ret ELSE sid
    IN
    /\ t \in TaskIds
    /\ tasks[t].op = "async_subscribe"
    /\ subscription_sid' = [subscription_sid EXCEPT ![svc] = new]
    /\ tasks' = Remove(tasks, t)
    /\ last' = [Obs("async_subscribe", svc) EXCEPT
                  !.phase = "resume", !.pre_sid = sid, !.post_sid = new,
                  !.http = r.kind, !.http_status = r.status, !.http_sid = r.sid,
                  !.http_err = r.err,
                  !.outcome = IF x.error = "" THEN "return" ELSE "raise",
                  !.error = x.error, !.ret = x.ret]
    /\ UNCHANGED <<on_state_variable_change, argument_value,
                   device_vars, sv_value, sv_updated_at, now,
                   registered_services, backlog>>

\* `if not force and not self._subscription_sid:` of async_unsubscribe.
NotSubscribedNever(force, sid) == FALSE

NotSubscribed(force, sid) == ~force /\ ~Truthy(sid)

\* The subscription id after `if force: self._subscription_sid = None`.
ForceClearLate(force, sid) == sid

ForceClear(force, sid) == IF force THEN None ELSE sid

\* Call of async_unsubscribe(force), up to the UNSUBSCRIBE request.
AsyncUnsubscribeCall(svc, force) ==
    LET sid == subscription_sid[svc]
        new == ForceClear(force, sid)
        o == [Obs("async_unsubscribe", svc) EXCEPT !.pre_sid = sid, !.force = force]
    IN
    /\ UNCHANGED <<on_state_variable_change, argument_value,
                   device_vars, sv_value, sv_updated_at, now,
                   registered_services, backlog>>
    /\ IF NotSubscribed(force, sid)
       THEN /\ tasks' = tasks
            /\ subscription_sid' = subscription_sid
            /\ last' = [o EXCEPT !.outcome = "raise", !.error = "NotSubscribed",
                                 !.post_sid = sid]
       ELSE /\ CanStart
            /\ subscription_sid' = [subscription_sid EXCEPT ![svc] = new]
            /\ tasks' = Append(tasks,
                  [Task("async_unsubscribe", svc) EXCEPT
                     !.force = force, !.local_sid = sid])
            /\ last' = [o EXCEPT !.outcome = "none", !.requested = TRUE,
                                 !.req_sid = sid, !.post_sid = new]

\* What async_unsubscribe does with the answer: [error, clear].
UnsubscribeResultNeverClears(force, r) ==
    IF r.kind = "error"
    THEN [error |-> IF force /\ r.err # "TypeError" THEN "" ELSE r.err,
          clear |-> FALSE]
    ELSE [error |-> "", clear |-> FALSE]

UnsubscribeResultClearsOnAnyAnswer(force, r) ==
    IF r.kind = "error"
    THEN [error |-> IF force /\ r.err # "TypeError" THEN "" ELSE r.err,
          clear |-> FALSE]
    ELSE [error |-> "", clear |-> TRUE]

UnsubscribeResult(force, r) ==
    IF r.kind = "error"
    THEN [error |-> IF force /\ r.err # "TypeError" THEN "" ELSE r.err,
          clear |-> FALSE]
    ELSE [error |-> "", clear |-> r.status = 200]

\* The continuation of async_unsubscribe once the request is answered.
AsyncUnsubscribeResume(t, r) ==
    LET svc == tasks[t].svc
        sid == subscription_sid[svc]
        x == UnsubscribeResult(tasks[t].force, r)
        new == IF x.clear THEN None ELSE sid
    IN
    /\ t \in TaskIds
    /\ tasks[t].op = "async_unsubscribe"
    /\ r.err = "TypeError" => tasks[t].local_sid = None
    /\ subscription_sid' = [subscription_sid EXCEPT ![svc] = new]
    /\ tasks' = Remove(tasks, t)
    /\ last' = [Obs("async_unsubscribe", svc) EXCEPT
                  !.phase = "resume",
                  !.pre_sid = sid, !.post_sid = new, !.force = tasks[t].force,
                  !.req_sid = tasks[t].local_sid,
                  !.http = r.kind, !.http_status = r.status, !.http_err = r.err,
                  !.outcome = IF x.error = "" THEN "return" ELSE "raise",
                  !.error = x.error]
    /\ UNCHANGED <<on_state_variable_change, argument_value,
                   device_vars, sv_value, sv_updated_at, now,
                   registered_services, backlog>>

(***************************************************************************)
(* DlnaDmrDevice._async_poll_transport_info, from the answer of            *)
(* GetTransportInfo on: the polled value goes through the value setter and *)
(* the device is told when it differs from the old one.                    *)
(***************************************************************************)
PollTransportInfo(value) ==
    LET sv == <<"AVT", "TransportState">>
        r == ValueSetter(sv, value, Current(sv), now)
    IN
    /\ sv_value' = [sv_value EXCEPT ![sv] = r.value]
    /\ sv_updated_at' = [sv_updated_at EXCEPT ![sv] = r.updated_at]
    /\ last' = [Obs("_async_poll_transport_info", "AVT") EXCEPT
                  !.var = sv[2], !.arg = value, !.stored = r.ok,
                  !.outcome = IF r.ok THEN "return" ELSE "raise",
                  !.error = r.err,
                  !.callbacks = IF r.ok /\ sv_value[sv] # value
                                THEN << <<sv[2]>> >> ELSE <<>>]
    /\ UNCHANGED <<subscription_sid, on_state_variable_change, argument_value,
                   device_vars, now,
                   registered_services, backlog, tasks>>

(***************************************************************************)
(* UpnpService.async_call_action.                                          *)
(***************************************************************************)
\* What the POST of a call can deliver: a response with a status and a body,
\* or one of the two errors _async_do_http_request re-raises.
CallResponse(status, body) ==
    [kind |-> "response", status |-> status, err |-> "", body |-> body]

CallError(err) ==
    [kind |-> "error", status |-> 0, err |-> err, body |-> SoapXmlError]

\* async_call_action up to the await of the POST: the request is created
\* (arguments validated and rendered) and, if that did not raise, sent.
AsyncCallActionCall(svc, action, kwargs) ==
    LET c == create_request(svc, action, kwargs)
        o == [Obs("async_call_action", svc) EXCEPT
                !.action = action, !.kwargs = kwargs]
    IN
    /\ action \in ActionNames(svc)
    /\ UNCHANGED <<subscription_sid, on_state_variable_change, argument_value,
                   device_vars, sv_value,
                   sv_updated_at, now, registered_services, backlog>>
    /\ IF c.err # ""
       THEN /\ tasks' = tasks
            /\ last' = [o EXCEPT !.outcome = "raise", !.error = c.err]
       ELSE /\ CanStart
            /\ tasks' = Append(tasks,
                  [Task("async_call_action", svc) EXCEPT !.action = action])
            /\ last' = [o EXCEPT !.outcome = "none", !.requested = TRUE,
                                 !.http = "POST", !.request = c.body]

\* What async_call_action does with the answer of the POST: an error
\* propagates, a status other than 200 raises RuntimeError, a 200 is parsed.
CallResultParsesAnyStatus(svc, action, r, values) ==
    LET p == parse_response(svc, action, r.body, values) IN
    [err |-> p.err, parsed |-> TRUE, has_result |-> p.has_result,
     result |-> p.result, values |-> p.values]

CallResult(svc, action, r, values) ==
    IF r.kind = "error"
    THEN [err |-> r.err, parsed |-> FALSE, has_result |-> FALSE, result |-> {},
          values |-> values]
    ELSE IF r.status # 200
    THEN [err |-> "RuntimeError", parsed |-> FALSE, has_result |-> FALSE,
          result |-> {}, values |-> values]
    ELSE LET p == parse_response(svc, action, r.body, values) IN
         [err |-> p.err, parsed |-> TRUE, has_result |-> p.has_result,
          result |-> p.result, values |-> p.values]

\* async_call_action from the answer of the POST on.
AsyncCallActionResumeStoresOut(t, r) ==
    /\ t \in TaskIds
    /\ tasks[t].op = "async_call_action"
    /\ LET svc == tasks[t].svc
           action == tasks[t].action
           c == CallResult(svc, action, r, argument_value)
           outs == out_arguments(svc, action)
           stored == {outs[i].related_state_variable : i \in DOMAIN outs}
       IN
       /\ last' = [Obs("async_call_action", svc) EXCEPT
                     !.phase = "resume", !.action = action,
                     !.outcome = IF c.err = "" THEN "return" ELSE "raise"]
       /\ sv_updated_at' = [sv \in StateVars |->
                               IF sv \in stored /\ c.has_result
                               THEN now ELSE sv_updated_at[sv]]
    /\ argument_value' = CallResult(tasks[t].svc, tasks[t].action, r,
                                    argument_value).values
    /\ tasks' = Remove(tasks, t)
    /\ UNCHANGED <<subscription_sid, on_state_variable_change, device_vars,
                   sv_value, now, registered_services, backlog>>

AsyncCallActionResume(t, r) ==
    /\ t \in TaskIds
    /\ tasks[t].op = "async_call_action"
    /\ LET svc == tasks[t].svc
           action == tasks[t].action
           c == CallResult(svc, action, r, argument_value)
       IN
       last' = [Obs("async_call_action", svc) EXCEPT
                  !.phase = "resume", !.action = action,
                  !.http = r.kind, !.http_status = r.status, !.http_err = r.err,
                  !.response = r.body,
                  !.outcome = IF c.err = "" THEN "return" ELSE "raise",
                  !.error = c.err,
                  !.parsed = c.parsed, !.has_result = c.has_result,
                  !.result = c.result]
    /\ argument_value' = CallResult(tasks[t].svc, tasks[t].action, r,
                                    argument_value).values
    /\ tasks' = Remove(tasks, t)
    /\ UNCHANGED <<subscription_sid, on_state_variable_change, device_vars,
                   sv_value, sv_updated_at, now, registered_services, backlog>>

(***************************************************************************)
(* UpnpFactory.async_create_services.                                      *)
(***************************************************************************)
\* What _async_fetch_url delivers: the body of the answer, or one of the two
\* errors it re-raises.
Fetched(doc) == [kind |-> "response", err |-> "", doc |-> doc]

FetchError(err) == [kind |-> "error", err |-> err, doc |-> DocXmlError]

\* create_service called on its own, as the tests do.
CreateService(svc, scpd) ==
    LET c == create_service(svc, scpd) IN
    /\ scpd.kind = "scpd"
    /\ last' = [Obs("create_service", svc) EXCEPT
                  !.doc = scpd,
                  !.outcome = IF c.err = "" THEN "return" ELSE "raise",
                  !.error = c.err,
                  !.services = IF c.err = "" THEN <<c.service>> ELSE <<>>]
    /\ UNCHANGED <<subscription_sid, on_state_variable_change, argument_value,
                   device_vars, sv_value,
                   sv_updated_at, now, registered_services, backlog, tasks>>

\* async_create_services up to the await of the device description.
AsyncCreateServicesCall ==
    /\ CanStart
    /\ tasks' = Append(tasks, Task("async_create_services", NoService))
    /\ last' = [Obs("async_create_services", NoService) EXCEPT
                  !.outcome = "none", !.requested = TRUE, !.http = "GET"]
    /\ UNCHANGED <<subscription_sid, on_state_variable_change, argument_value,
                   device_vars, sv_value,
                   sv_updated_at, now, registered_services, backlog>>

\* async_create_services from the answer of a fetch on: of the device
\* description (the task awaits no service yet) or of the SCPD of the
\* service the loop is at.  An error of the fetch, a body that is not
\* well-formed and a failure of create_service leave the coroutine; else
\* the loop goes on to the next service, or returns the services built.
AsyncCreateServicesResume(t, r) ==
    /\ t \in TaskIds
    /\ tasks[t].op = "async_create_services"
    /\ r.kind = "response" =>
          r.doc.kind \in {"xml_error", IF tasks[t].svc = NoService
                                       THEN "device" ELSE "scpd"}
    /\ LET task == tasks[t]
           o == [Obs("async_create_services", task.svc) EXCEPT
                   !.phase = "resume", !.http = r.kind, !.http_err = r.err,
                   !.doc = r.doc]
           raise(err) ==
               /\ tasks' = Remove(tasks, t)
               /\ last' = [o EXCEPT !.outcome = "raise", !.error = err]
           return(services) ==
               /\ tasks' = Remove(tasks, t)
               /\ last' = [o EXCEPT !.outcome = "return", !.services = services]
           fetch(pending, built) ==
               /\ tasks' = [tasks EXCEPT ![t] =
                              [task EXCEPT !.svc = Head(pending),
                                           !.pending = Tail(pending),
                                           !.built = built]]
               /\ last' = [o EXCEPT !.outcome = "none", !.requested = TRUE]
           go_on(pending, built) ==
               IF pending = <<>> THEN return(built) ELSE fetch(pending, built)
       IN
       IF r.kind = "error" THEN raise(r.err)
       ELSE IF r.doc.kind = "xml_error" THEN raise("ParseError")
       ELSE IF task.svc = NoService THEN go_on(r.doc.services, <<>>)
       ELSE LET c == create_service(task.svc, r.doc) IN
            IF c.err # "" THEN raise(c.err)
            ELSE go_on(task.pending, Append(task.built, c.service))
    /\ UNCHANGED <<subscription_sid, on_state_variable_change, argument_value,
                   device_vars, sv_value,
                   sv_updated_at, now, registered_services, backlog>>

(***************************************************************************)
(* UpnpNotifyView: the notification registry.                              *)
(***************************************************************************)
\* `return aiohttp.web.Response(status=422)`
MissingSidAnswerAccepted(o) == [o EXCEPT !.status = 202]

MissingSidAnswer(o) == [o EXCEPT !.status = 422]

\* async_notify up to `yield from request.text()`: 422 without a SID header.
\* The request carries its body; reading it takes until the resumption.
AsyncNotifyCall(hdr_sid, body) ==
    LET o == [Obs("async_notify", NoService) EXCEPT !.notify_sid = hdr_sid] IN
    /\ UNCHANGED <<subscription_sid, on_state_variable_change, argument_value,
                   device_vars, sv_value,
                   sv_updated_at, now, registered_services, backlog>>
    /\ IF hdr_sid = None
       THEN /\ tasks' = tasks
            /\ last' = MissingSidAnswer(o)
       ELSE /\ CanStart
            /\ tasks' = Append(tasks,
                  [Task("async_notify", NoService) EXCEPT
                     !.hdr_sid = hdr_sid, !.body = body])
            /\ last' = [o EXCEPT !.outcome = "none"]

\* async_notify once the body is read: to the backlog (202) when the SID is
\* not registered, else to the registered service (200).
AsyncNotifyResume(t) ==
    LET sid == tasks[t].hdr_sid
        body == tasks[t].body
        svc == registered_services[sid]
        o == [Obs("async_notify", svc) EXCEPT
                !.phase = "resume", !.notify_sid = sid, !.body_kind = body.kind]
    IN
    /\ t \in TaskIds
    /\ tasks[t].op = "async_notify"
    /\ tasks' = Remove(tasks, t)
    /\ UNCHANGED <<subscription_sid, on_state_variable_change, argument_value,
                   device_vars, now,
                   registered_services>>
    /\ IF svc = NoService
       THEN /\ backlog' = [backlog EXCEPT ![sid] = Item(sid, body)]
            /\ UNCHANGED <<sv_value, sv_updated_at>>
            /\ last' = [o EXCEPT !.status = 202]
       ELSE LET r == on_notify(svc, sid, body, subscription_sid[svc],
                       on_state_variable_change[svc], sv_value, sv_updated_at, now)
            IN
            /\ backlog' = backlog
            /\ sv_value' = r.value
            /\ sv_updated_at' = r.updated_at
            /\ last' = [o EXCEPT
                  !.pre_sid = subscription_sid[svc],
                  !.post_sid = subscription_sid[svc],
                  !.status = IF r.err = "" THEN 200 ELSE 0,
                  !.outcome = IF r.err = "" THEN "return" ELSE "raise",
                  !.error = r.err,
                  !.callbacks = r.callbacks,
                  !.notified = <<[svc |-> svc, sid |-> sid,
                                  body |-> body, passed |-> r.passed]>>]

\* `sid in self._registered_services`
IsRegisteredNever(registry, sid) == FALSE

IsRegistered(registry, sid) == registry[sid] # NoService

\* register_service(sid, service): a registered SID is refused; a NOTIFY held
\* for the SID is handed to the service and then deleted from the backlog.
RegisterService(sid, svc) ==
    LET o == [Obs("register_service", svc) EXCEPT
                !.notify_sid = sid, !.held = backlog[sid].present,
                !.pre_sid = subscription_sid[svc],
                !.post_sid = subscription_sid[svc]]
        item == backlog[sid]
    IN
    /\ UNCHANGED <<subscription_sid, on_state_variable_change, argument_value,
                   device_vars, now, tasks>>
    /\ IF IsRegistered(registered_services, sid)
       THEN /\ UNCHANGED <<registered_services, backlog, sv_value, sv_updated_at>>
            /\ last' = [o EXCEPT !.outcome = "raise", !.error = "RuntimeError"]
       ELSE /\ registered_services' = [registered_services EXCEPT ![sid] = svc]
            /\ IF ~item.present
               THEN /\ UNCHANGED <<backlog, sv_value, sv_updated_at>>
                    /\ last' = o
               ELSE LET r == on_notify(svc, item.sid, item.body,
                               subscription_sid[svc], on_state_variable_change[svc],
                               sv_value, sv_updated_at, now)
                    IN
                    /\ sv_value' = r.value
                    /\ sv_updated_at' = r.updated_at
                    /\ backlog' = IF r.err = ""
                                  THEN [backlog EXCEPT ![sid] = NoItem]
                                  ELSE backlog
                    /\ last' = [o EXCEPT
                          !.body_kind = item.body.kind,
                          !.outcome = IF r.err = "" THEN "return" ELSE "raise",
                          !.error = r.err,
                          !.callbacks = r.callbacks,
                          !.notified = <<[svc |-> svc, sid |-> item.sid,
                                          body |-> item.body, passed |-> r.passed]>>]

\* `if sid in self._registered_services: del self._registered_services[sid]`
UnregisteredAll(registry, sid) == [s \in DOMAIN registry |-> NoService]

Unregistered(registry, sid) == [registry EXCEPT ![sid] = NoService]

\* unregister_service(sid)
UnregisterService(sid) ==
    /\ registered_services' = Unregistered(registered_services, sid)
    /\ last' = [Obs("unregister_service", registered_services[sid]) EXCEPT
                  !.notify_sid = sid]
    /\ UNCHANGED <<subscription_sid, on_state_variable_change, argument_value,
                   device_vars, sv_value,
                   sv_updated_at, now, backlog, tasks>>

(***************************************************************************)
(* The subscription lifecycle of one service, with NOTIFYs handed to it    *)
(* while subscribe and unsubscribe calls are in flight.                    *)
(***************************************************************************)
SubscriptionBodies == {NoLastChange, LastChange(<<<<"Volume", "10">>>>)}

NextSubscription ==
    \/ SetOnStateVariableChange("RC")
    \/ AsyncSubscribeCall("RC")
    \/ \E t \in 1 .. MaxTasks, r \in HttpResponses(Sids) \cup HttpErrors :
          AsyncSubscribeResume(t, r)
    \/ \E force \in BOOLEAN : AsyncUnsubscribeCall("RC", force)
    \/ \E t \in 1 .. MaxTasks,
          r \in HttpResponses({}) \cup HttpErrors \cup {HttpTypeError} :
          AsyncUnsubscribeResume(t, r)
    \/ \E notify_sid \in SidsOrNone, body \in SubscriptionBodies :
          OnNotify("RC", notify_sid, body)

SpecSubscription == Init /\ [][NextSubscription]_vars

(***************************************************************************)
(* The same lifecycle with the caller serializing subscribe, as the        *)
(* design asks of it: a subscribe on a service starts only when no other   *)
(* subscribe or unsubscribe on that service is in flight, and an           *)
(* unsubscribe only when no subscribe is.  Unsubscribes may overlap.       *)
(***************************************************************************)
LifecycleInFlight(svc) ==
    InFlight("async_subscribe", svc) \/ InFlight("async_unsubscribe", svc)

SerialSubscribeCall(svc) ==
    /\ ~LifecycleInFlight(svc)
    /\ AsyncSubscribeCall(svc)

SerialUnsubscribeCall(svc, force) ==
    /\ ~InFlight("async_subscribe", svc)
    /\ AsyncUnsubscribeCall(svc, force)

NextSerial ==
    \/ SetOnStateVariableChange("RC")
    \/ SerialSubscribeCall("RC")
    \/ \E t \in 1 .. MaxTasks, r \in HttpResponses(Sids) \cup HttpErrors :
          AsyncSubscribeResume(t, r)
    \/ \E force \in BOOLEAN : SerialUnsubscribeCall("RC", force)
    \/ \E t \in 1 .. MaxTasks,
          r \in HttpResponses({}) \cup HttpErrors \cup {HttpTypeError} :
          AsyncUnsubscribeResume(t, r)
    \/ \E notify_sid \in SidsOrNone, body \in SubscriptionBodies :
          OnNotify("RC", notify_sid, body)

SpecSerial == Init /\ [][NextSerial]_vars

(***************************************************************************)
(* The state variables under every way the code assigns them: the native   *)
(* setter, the wire setter, polling, and NOTIFYs to a service that may be  *)
(* subscribed.                                                             *)
(***************************************************************************)
NativeInputs ==
    {PyInt(0 - 10), PyInt(10), PyInt(110), PyBool(TRUE), PyStr("PLAYING"),
     PyStr("test"), PyNone}

WireInputs == {"20", "150", "abc", "PLAYING"}

PolledStates == {PyStr("PLAYING"), PyStr("BOGUS")}

AssignedVars ==
    {<<"RC", "Volume">>, <<"RC", "Mute">>, <<"AVT", "TransportState">>}

NotifyPairs ==
    {<<"Volume", "20">>, <<"Volume", "150">>, <<"Volume", "abc">>,
     <<"Mute", "1">>, <<"Bogus", "1">>}

Answer200 == [kind |-> "response", status |-> 200, sid |-> "uuid:1", err |-> ""]

NextStateVariable ==
    \/ SerialSubscribeCall("RC")
    \/ \E t \in 1 .. MaxTasks : AsyncSubscribeResume(t, Answer200)
    \/ \E sv \in AssignedVars, value \in NativeInputs : SetValue(sv, value)
    \/ \E sv \in AssignedVars, upnp_value \in WireInputs : SetUpnpValue(sv, upnp_value)
    \/ \E value \in PolledStates : PollTransportInfo(value)
    \/ \E notify_sid \in {None, "uuid:1"},
          body \in EventBodies(NotifyPairs, MaxEventLen) \cup {XmlError} :
          OnNotify("RC", notify_sid, body)

SpecStateVariable == Init /\ [][NextStateVariable]_vars

(***************************************************************************)
(* The setters of the state variables and polling, while time passes.      *)
(***************************************************************************)
NextSetter ==
    \/ Tick
    \/ \E sv \in AssignedVars, value \in NativeInputs : SetValue(sv, value)
    \/ \E sv \in AssignedVars, upnp_value \in WireInputs : SetUpnpValue(sv, upnp_value)
    \/ \E value \in PolledStates : PollTransportInfo(value)

SpecSetter == Init /\ [][NextSetter]_vars

(***************************************************************************)
(* The two encodings of a value: an integer and a boolean variable are set *)
(* natively and from wire strings, well-formed and not, while time passes. *)
(***************************************************************************)
WireVars == {<<"RC", "Volume">>, <<"RC", "Mute">>}

WireNatives == {PyInt(10), PyInt(150), PyBool(TRUE), PyBool(FALSE)}

WireStrings == {"0", "1", "2", "20", "150", "true", "false", "", "abc"}

NextWire ==
    \/ Tick
    \/ \E sv \in WireVars, value \in WireNatives : SetValue(sv, value)
    \/ \E sv \in WireVars, w \in WireStrings : SetUpnpValue(sv, w)

SpecWire == Init /\ [][NextWire]_vars

(***************************************************************************)
(* Action calls: SetVolume and GetVolume of RenderingControl and           *)
(* SetAVTransportURI of AVTransport are called with complete, incomplete   *)
(* and invalid arguments, and the device answers each POST with a status   *)
(* and a body, or the POST fails, while Volume is assigned and time        *)
(* passes.                                                                 *)
(***************************************************************************)
VolumeKwargs ==
    { << <<"InstanceID", PyInt(0)>>, <<"Channel", PyStr("Master")>>,
         <<"DesiredVolume", PyInt(10)>> >>,
      << <<"InstanceID", PyStr("0")>>, <<"Channel", PyStr("Master")>>,
         <<"DesiredVolume", PyInt(10)>> >>,
      << <<"InstanceID", PyInt(0)>>, <<"Channel", PyStr("Master")>> >>,
      << <<"InstanceID", PyInt(0)>>, <<"Channel", PyStr("Master")>>,
         <<"DesiredVolume", PyInt(150)>> >>,
      << <<"InstanceID", PyInt(0)>>, <<"Channel", PyStr("Master")>>,
         <<"CurrentVolume", PyInt(20)>>, <<"Extra", PyInt(1)>> >> }

UriKwargs ==
    { << <<"InstanceID", PyInt(0)>>, <<"CurrentURI", PyStr(uri)>> >> :
         uri \in {"http://h/a", "http://h/a?x=1&y=2", "<DIDL-Lite/>", "a&amp;b"} }

ActionKwargs(svc) == IF svc = "RC" THEN VolumeKwargs ELSE UriKwargs

ResponseChildren ==
    { <<>>, << <<"CurrentVolume", "3">> >>, << <<"CurrentVolume", "150">> >>,
      << <<"CurrentVolume", "abc">> >>,
      << <<"InstanceID", "0">> >>, << <<"Bogus", "1">> >>,
      << <<"CurrentVolume", "3">>, <<"Bogus", "1">> >> }

ResponseBodies ==
    {SoapXmlError, SoapBody("children", FALSE, <<>>), SoapBody("empty", FALSE, <<>>),
     SoapBody("empty", TRUE, << <<"CurrentVolume", "3">> >>),
     SoapBody("none", FALSE, <<>>)}
    \cup {SoapBody("none", TRUE, children) : children \in ResponseChildren}

CallAnswers ==
    {CallResponse(200, body) : body \in ResponseBodies}
    \cup {CallResponse(500, SoapBody("children", FALSE, <<>>)),
          CallResponse(404, SoapBody("none", TRUE, << <<"CurrentVolume", "3">> >>)),
          CallError("TimeoutError"), CallError("ClientError")}

NextAction ==
    \/ Tick
    \/ SetValue(<<"RC", "Volume">>, PyInt(10))
    \/ \E svc \in Services :
          \E action \in ActionNames(svc), kwargs \in ActionKwargs(svc) :
             AsyncCallActionCall(svc, action, kwargs)
    \/ \E t \in 1 .. MaxTasks, r \in CallAnswers : AsyncCallActionResume(t, r)

SpecAction == Init /\ [][NextAction]_vars

(***************************************************************************)
(* Construction: the services of a device are built from a device          *)
(* description and one SCPD per service, each fetched in turn; the SCPDs   *)
(* are sound, declare a variable of an unknown dataType, or have an action *)
(* argument that refers to an undeclared variable, and a fetch may fail.   *)
(***************************************************************************)
GoodScpd ==
    Scpd(<< <<"Volume", "ui2">>, <<"Mute", "boolean">> >>,
         << <<"GetVolume", <<"Volume">> >>, <<"SetMute", <<"Mute">> >> >>)

UnknownTypeScpd ==
    Scpd(<< <<"Volume", "ui2">>, <<"Icon", "bin.base64">> >>,
         << <<"GetVolume", <<"Volume">> >> >>)

DanglingScpd ==
    Scpd(<< <<"Volume", "ui2">> >>,
         << <<"GetVolume", <<"Volume">> >>, <<"SetMute", <<"Mute">> >> >>)

ScpdDocs == {GoodScpd, UnknownTypeScpd, DanglingScpd}

DeviceDocs == {DeviceDescription(<<"RC", "AVT">>), DeviceDescription(<<"RC">>)}

FetchAnswers ==
    {Fetched(doc) : doc \in ScpdDocs \cup DeviceDocs \cup {DocXmlError}}
    \cup {FetchError("TimeoutError"), FetchError("ClientError")}

NextConstruction ==
    \/ AsyncCreateServicesCall
    \/ \E t \in 1 .. MaxTasks, r \in FetchAnswers : AsyncCreateServicesResume(t, r)
    \/ \E svc \in Services, scpd \in ScpdDocs : CreateService(svc, scpd)

SpecConstruction == Init /\ [][NextConstruction]_vars

(***************************************************************************)
(* validate_value on every declared variable, called with values of every *)
(* native type, on and next to the ends of the declared range, between     *)
(* assignments that store a value.                                         *)
(***************************************************************************)
ValidateInputs ==
    {PyInt(VolumeMin - 1), PyInt(VolumeMin), PyInt(10), PyInt(VolumeMax),
     PyInt(VolumeMax + 1), PyBool(TRUE), PyBool(FALSE), PyStr("PLAYING"),
     PyStr("test"), PyStr("10"), PyNone}

StoredInputs == {PyInt(VolumeMin), PyInt(VolumeMax), PyStr("PLAYING")}

StoredVars == {<<"RC", "Volume">>, <<"AVT", "TransportState">>}

NextValidate ==
    \/ \E sv \in StateVars, value \in ValidateInputs : ValidateValue(sv, value)
    \/ \E sv \in StoredVars, value \in StoredInputs : SetValue(sv, value)

SpecValidate == Init /\ [][NextValidate]_vars

(***************************************************************************)
(* The notification registry: NOTIFYs arrive for SIDs before and after the *)
(* service that subscribed is registered under them.                       *)
(***************************************************************************)
DispatcherSids == {"uuid:1", "uuid:2"}

DispatcherBodies ==
    {LastChange(<<<<"Volume", "10">>>>), LastChange(<<<<"Volume", "abc">>>>)}

NextDispatcher ==
    \/ SerialSubscribeCall("RC")
    \/ \E t \in 1 .. MaxTasks, r \in HttpResponses(DispatcherSids) :
          AsyncSubscribeResume(t, r)
    \/ \E hdr_sid \in DispatcherSids \cup {None}, body \in DispatcherBodies :
          AsyncNotifyCall(hdr_sid, body)
    \/ \E t \in 1 .. MaxTasks : AsyncNotifyResume(t)
    \/ \E sid \in DispatcherSids, svc \in Services : RegisterService(sid, svc)
    \/ \E sid \in DispatcherSids : UnregisterService(sid)

SpecDispatcher == Init /\ [][NextDispatcher]_vars

(***************************************************************************)
(* NOTIFYs to the services of a device that installs its change callback   *)
(* on a service and then subscribes it, one service at a time, as          *)
(* _async_init_device does, while time passes.  The NOTIFYs carry the SID  *)
(* the device answers, so they match once the service is subscribed and    *)
(* mismatch before.  An event lists up to MaxBatch variables.              *)
(***************************************************************************)
InitDeviceSubscribe(svc) ==
    /\ on_state_variable_change[svc]
    /\ tasks = <<>>
    /\ AsyncSubscribeCall(svc)

\* The (name, val) pairs a NOTIFY to the service may list: values that are
\* valid, out of range and not in the enumeration.
PairsOf(svc) ==
    IF svc = "RC"
    THEN {<<"Volume", "20">>, <<"Volume", "150">>, <<"Mute", "1">>}
    ELSE {<<"TransportState", "PLAYING">>, <<"TransportState", "BOGUS">>}

RcBodies == EventBodies(PairsOf("RC"), MaxBatch) \cup {NoLastChange}

AvtBodies == EventBodies(PairsOf("AVT"), MaxBatch) \cup {NoLastChange}

NotifyBodies(svc) == IF svc = "RC" THEN RcBodies ELSE AvtBodies

NextNotify ==
    \/ Tick
    \/ \E svc \in Services : SetOnStateVariableChange(svc)
    \/ \E svc \in Services : InitDeviceSubscribe(svc)
    \/ \E t \in 1 .. MaxTasks : AsyncSubscribeResume(t, Answer200)
    \/ \E svc \in Services :
          \E body \in NotifyBodies(svc) : OnNotify(svc, Answer200.sid, body)

SpecNotify == Init /\ [][NextNotify]_vars

(***************************************************************************)
(* The same device receiving what a renderer may send at all: events that  *)
(* also carry a value that is no integer for an integer variable, or name  *)
(* a variable the service does not declare.                                *)
(***************************************************************************)
FaultyPairs ==
    {<<"Volume", "20">>, <<"Volume", "150">>, <<"Volume", "abc">>,
     <<"Mute", "1">>, <<"Bogus", "1">>}

FaultyBodies == EventBodies(FaultyPairs, MaxBatch) \cup {NoLastChange}

NextNotifyFaulty ==
    \/ SetOnStateVariableChange("RC")
    \/ InitDeviceSubscribe("RC")
    \/ \E t \in 1 .. MaxTasks : AsyncSubscribeResume(t, Answer200)
    \/ \E body \in FaultyBodies : OnNotify("RC", Answer200.sid, body)

SpecNotifyFaulty == Init /\ [][NextNotifyFaulty]_vars

(***************************************************************************)
(* Properties of the subscription lifecycle.                               *)
(***************************************************************************)
IsCall(op) == last.op = op /\ last.phase = "call"
IsResume(op) == last.op = op /\ last.phase = "resume"

\* C1: async_subscribe called while the service holds a subscription id is
\* rejected with the already-subscribed error, issues no SUBSCRIBE request and
\* leaves the subscription id as it was.  (An id is held when it is set and
\* not empty, which is what the code tests.)
C1_SubscribeWhileSubscribedRejected ==
    (IsCall("async_subscribe") /\ Truthy(last.pre_sid)) =>
        /\ last.outcome = "raise"
        /\ last.error = "AlreadySubscribed"
        /\ ~last.requested
        /\ last.post_sid = last.pre_sid
        /\ subscription_sid[last.svc] = last.pre_sid

C1_Witness ==
    /\ IsCall("async_subscribe")
    /\ last.pre_sid = "uuid:1"
    /\ last.outcome = "raise"

\* C2: an on_notify whose SID header differs from the subscription id of the
\* service changes no state variable's value or timestamp, does not invoke
\* the change callback and raises nothing.
C2_NotifySidMismatchIsNoOp ==
    [][(last'.op = "on_notify" /\ last'.notify_sid # subscription_sid[last'.svc]) =>
          /\ sv_value' = sv_value
          /\ sv_updated_at' = sv_updated_at
          /\ last'.callbacks = <<>>
          /\ last'.outcome = "return"
          /\ ~last'.notified[1].passed]_vars

C2_Witness ==
    /\ last.op = "on_notify"
    /\ last.pre_sid = "uuid:1"
    /\ last.notify_sid = "uuid:2"
    /\ last.body_kind = "last_change"
    /\ on_state_variable_change[last.svc]
    /\ sv_value[<<"RC", "Volume">>] = PyNone

\* C4: async_unsubscribe(force=True) clears the subscription id before the
\* UNSUBSCRIBE request is made, does not raise on a timeout or a transport
\* error, and ends with the subscription id unset whatever the answer was,
\* also when no subscription was active, given that no subscribe runs
\* concurrently on the service.
C4_ForcedUnsubscribeAlwaysClears ==
    /\ (IsCall("async_unsubscribe") /\ last.force) =>
          /\ last.outcome = "none"
          /\ last.requested
          /\ last.post_sid = None
          /\ subscription_sid[last.svc] = None
    /\ (IsResume("async_unsubscribe") /\ last.force) =>
          /\ last.pre_sid = None
          /\ last.post_sid = None
          /\ subscription_sid[last.svc] = None
          /\ last.http_err \in {"TimeoutError", "ClientError"} =>
                last.outcome = "return"
          /\ last.http = "response" => last.outcome = "return"

C4_Witness ==
    /\ IsResume("async_unsubscribe")
    /\ last.force
    /\ last.req_sid = "uuid:1"
    /\ last.http_err = "TimeoutError"
    /\ last.outcome = "return"

\* C7: when the SUBSCRIBE of an accepted async_subscribe is answered with
\* HTTP 200 and a SID header, the subscription id of the service becomes that
\* SID and the call returns it.
C7_SubscribeStoresAndReturnsSid ==
    (/\ IsResume("async_subscribe")
     /\ last.http = "response" /\ last.http_status = 200 /\ last.http_sid # None)
    =>
        /\ last.outcome = "return"
        /\ last.ret = last.http_sid
        /\ last.post_sid = last.http_sid
        /\ subscription_sid[last.svc] = last.http_sid

C7_Witness ==
    /\ IsResume("async_subscribe")
    /\ last.pre_sid = None
    /\ last.http_status = 200
    /\ last.http_sid = "uuid:1"
    /\ subscription_sid["RC"] = "uuid:1"

\* C8: when the SUBSCRIBE is not answered with HTTP 200 and a SID header, the
\* service stays unsubscribed: a status other than 200 or a missing SID header
\* makes async_subscribe return None without raising, a timeout or transport
\* error is raised to the caller, and in each case no subscription id is set.
C8_FailedSubscribeStaysUnsubscribed ==
    (/\ IsResume("async_subscribe")
     /\ ~(last.http = "response" /\ last.http_status = 200 /\ last.http_sid # None))
    =>
        /\ last.http = "response" =>
              last.outcome = "return" /\ last.ret = None
        /\ last.http = "error" =>
              last.outcome = "raise" /\ last.error = last.http_err
        /\ last.post_sid = last.pre_sid
        /\ ~Truthy(subscription_sid[last.svc])

C8_Witness ==
    /\ IsResume("async_subscribe")
    /\ last.http = "response"
    /\ last.http_status # 200
    /\ last.http_sid = "uuid:1"
    /\ last.outcome = "return"

\* C9: async_unsubscribe without force on a service that holds no subscription
\* id is rejected with the not-subscribed error and issues no UNSUBSCRIBE
\* request.
C9_UnforcedUnsubscribeWhenUnsubscribedRejected ==
    (IsCall("async_unsubscribe") /\ ~last.force /\ ~Truthy(last.pre_sid)) =>
        /\ last.outcome = "raise"
        /\ last.error = "NotSubscribed"
        /\ ~last.requested
        /\ last.post_sid = last.pre_sid
        /\ subscription_sid[last.svc] = last.pre_sid

C9_Witness ==
    /\ IsCall("async_unsubscribe")
    /\ ~last.force
    /\ last.pre_sid = None
    /\ last.outcome = "raise"

\* C10: a non-forced async_unsubscribe on a subscribed service whose
\* UNSUBSCRIBE is answered with HTTP 200 clears the subscription id, and an
\* async_subscribe called next on the service is accepted: it is not rejected
\* and issues its SUBSCRIBE request.
C10_UnsubscribeThenSubscribeAccepted ==
    /\ (/\ IsResume("async_unsubscribe") /\ ~last.force
        /\ last.http = "response" /\ last.http_status = 200)
       =>
          /\ Truthy(last.req_sid)
          /\ last.outcome = "return"
          /\ last.post_sid = None
          /\ subscription_sid[last.svc] = None
    /\ (IsCall("async_subscribe") /\ last.after_unsubscribe) =>
          /\ last.outcome = "none"
          /\ last.requested
          /\ InFlight("async_subscribe", last.svc)

C10_Witness ==
    /\ IsCall("async_subscribe")
    /\ last.after_unsubscribe
    /\ last.outcome = "none"
    /\ last.requested

(***************************************************************************)
(* Properties of the state variables.                                      *)
(***************************************************************************)
\* The declared rules of a variable, read off its declaration: the native
\* type (isinstance, so a bool passes for an integer), the enumeration and the
\* inclusive range.
MeetsDeclaration(sv, value) ==
    LET info == TypeInfo(sv) IN
    /\ \/ info.data_type_python = "int" /\ value.ty \in {"int", "bool"}
       \/ info.data_type_python = "bool" /\ value.ty = "bool"
       \/ info.data_type_python = "str" /\ value.ty = "str"
    /\ info.has_allowed => (value.ty = "str" /\ value.s \in info.allowed_values)
    /\ info.has_range => (info.min <= value.i /\ value.i <= info.max)

\* C5: in every reachable state the stored value of each state variable is
\* unset or meets the variable's declared type, enumeration and range: no
\* native set, wire set, NOTIFY or polling update stores a value that fails
\* validation.
C5_StoredValuesAreValid ==
    \A sv \in StateVars :
        /\ sv_value[sv] = PyNone \/ MeetsDeclaration(sv, sv_value[sv])
        /\ sv_value[sv] = PyNone <=> sv_updated_at[sv] = NoTime

C5_Witness ==
    /\ sv_value[<<"RC", "Volume">>] = PyInt(20)
    /\ sv_value[<<"RC", "Mute">>] = PyBool(TRUE)
    /\ sv_value[<<"AVT", "TransportState">>] = PyStr("PLAYING")
    /\ last.op = "on_notify"
    /\ last.pre_sid = "uuid:1"
    /\ last.notify_sid = "uuid:1"
    /\ last.notified[1].body = LastChange(<<<<"Volume", "150">>>>)

\* C6: the native setter stores the value and stamps the variable with the
\* current time if and only if the value passes validation; otherwise it
\* raises the validation error and leaves value and timestamp as they were.
\* In particular a value outside the declared range [min, max] is refused.
C6_NativeSetterStoresIffValid ==
    [][last'.op \in {"value", "_async_poll_transport_info"} =>
          LET sv == <<last'.svc, last'.var>>
              value == last'.arg
              info == TypeInfo(sv)
          IN
          /\ MeetsDeclaration(sv, value) =>
                /\ last'.outcome = "return"
                /\ sv_value'[sv] = value
                /\ sv_updated_at'[sv] = now
          /\ ~MeetsDeclaration(sv, value) =>
                /\ last'.outcome = "raise"
                /\ last'.error = "MultipleInvalid"
                /\ sv_value'[sv] = sv_value[sv]
                /\ sv_updated_at'[sv] = sv_updated_at[sv]
          /\ (info.has_range /\ (value.i < info.min \/ value.i > info.max)) =>
                /\ last'.outcome = "raise"
                /\ sv_value' = sv_value
                /\ sv_updated_at' = sv_updated_at
          /\ \A other \in StateVars \ {sv} :
                /\ sv_value'[other] = sv_value[other]
                /\ sv_updated_at'[other] = sv_updated_at[other]]_vars

C6_Witness ==
    /\ last.op = "value"
    /\ last.var = "Volume"
    /\ last.arg = PyInt(110)
    /\ last.outcome = "raise"
    /\ last.error = "MultipleInvalid"
    /\ sv_value[<<"RC", "Volume">>] = PyInt(10)
    /\ sv_updated_at[<<"RC", "Volume">>] = 1
    /\ now = 2

(***************************************************************************)
(* Properties of the notification registry.                                *)
(***************************************************************************)
\* C3: a NOTIFY dispatched for a SID that is not registered is held in the
\* backlog under that SID (answer 202); a later register_service for the SID
\* hands the held NOTIFY to the service's on_notify during the call, and
\* after the call the backlog holds no entry for the SID.
C3_HeldNotifyReplayedAndRemoved ==
    [][/\ (/\ last'.op = "async_notify"
           /\ last'.phase = "resume"
           /\ registered_services[last'.notify_sid] = NoService) =>
              /\ last'.status = 202
              /\ backlog'[last'.notify_sid].present
              /\ backlog'[last'.notify_sid].sid = last'.notify_sid
              /\ last'.notified = <<>>
       /\ (/\ last'.op = "register_service"
           /\ registered_services[last'.notify_sid] = NoService
           /\ backlog[last'.notify_sid].present) =>
              /\ last'.notified =
                    <<[svc |-> last'.svc, sid |-> last'.notify_sid,
                       body |-> backlog[last'.notify_sid].body,
                       passed |-> subscription_sid[last'.svc] = last'.notify_sid]>>
              /\ registered_services'[last'.notify_sid] = last'.svc
              /\ ~backlog'[last'.notify_sid].present]_vars

(***************************************************************************)
(* Properties of NOTIFY processing.                                        *)
(***************************************************************************)
\* What a wire string stands for in a variable of the declared type, and
\* whether it stands for anything.
Coercible(sv, w) ==
    TypeInfo(sv).data_type_python = "int" => (w # None /\ IsDecimal(w))

WireValue(sv, w) ==
    CASE TypeInfo(sv).data_type_python = "int" -> PyInt(ParseInt(w))
      [] TypeInfo(sv).data_type_python = "bool" -> PyBool(w = "1")
      [] OTHER -> PyStr(w)

\* The variables an event names, and the entries of the event that give a
\* variable of the service a value it accepts.
Named(body) == {body.event[i][1] : i \in DOMAIN body.event}

Faultless(svc, body) ==
    \A i \in DOMAIN body.event :
        /\ <<svc, body.event[i][1]>> \in StateVars
        /\ Coercible(<<svc, body.event[i][1]>>, body.event[i][2])

AcceptedEntries(svc, body, name) ==
    {i \in DOMAIN body.event :
        /\ body.event[i][1] = name
        /\ <<svc, name>> \in StateVars
        /\ Coercible(<<svc, name>>, body.event[i][2])
        /\ MeetsDeclaration(<<svc, name>>, WireValue(<<svc, name>>, body.event[i][2]))}

LastOf(S) == CHOOSE i \in S : \A j \in S : j <= i

NamesInOrder(body) == [i \in DOMAIN body.event |-> body.event[i][1]]

\* C12: a NOTIFY with the service's SID that contains a LastChange element
\* invokes the installed change callback exactly once, after all variables of
\* the event were processed (the batch lists every one of them); a NOTIFY
\* ignored for its SID or for lacking a LastChange element invokes it zero
\* times.
C12_CallbackOncePerNotify ==
    [][(last'.op = "on_notify" /\ on_state_variable_change[last'.svc]) =>
          LET svc == last'.svc
              body == last'.notified[1].body
              matched == last'.notify_sid = subscription_sid[svc]
          IN
          /\ (matched /\ body.kind = "last_change") =>
                /\ Len(last'.callbacks) = 1
                /\ last'.callbacks[1] = NamesInOrder(body)
          /\ (~matched \/ body.kind = "no_last_change") =>
                last'.callbacks = <<>>]_vars

\* An entry of an event whose value fails the validation of the variable it
\* names: it is not of the declared type (no integer for an integer
\* variable), not in the enumeration, or outside the range.
FailsValidation(svc, entry) ==
    LET sv == <<svc, entry[1]>> IN
    \/ ~Coercible(sv, entry[2])
    \/ ~MeetsDeclaration(sv, WireValue(sv, entry[2]))

AllDeclared(svc, body) ==
    \A i \in DOMAIN body.event : <<svc, body.event[i][1]>> \in StateVars

\* C13: when a NOTIFY with the service's SID gives a variable a value that
\* fails validation (type, enumeration or range), on_notify does not raise, a
\* variable given no acceptable value keeps its value and timestamp, and every
\* variable given a valid value takes it, before or after the failing entry.
C13_InvalidValueSkippedOthersApplied ==
    [][(/\ last'.op = "on_notify"
        /\ last'.notify_sid = subscription_sid[last'.svc]
        /\ last'.notified[1].body.kind = "last_change"
        /\ AllDeclared(last'.svc, last'.notified[1].body)
        /\ \E i \in DOMAIN last'.notified[1].body.event :
              FailsValidation(last'.svc, last'.notified[1].body.event[i])) =>
          LET svc == last'.svc
              body == last'.notified[1].body
          IN
          /\ last'.outcome = "return"
          /\ \A name \in Named(body) :
                LET sv == <<svc, name>>
                    acc == AcceptedEntries(svc, body, name)
                IN
                IF acc = {}
                THEN /\ sv_value'[sv] = sv_value[sv]
                     /\ sv_updated_at'[sv] = sv_updated_at[sv]
                ELSE /\ sv_value'[sv] = WireValue(sv, body.event[LastOf(acc)][2])
                     /\ sv_updated_at'[sv] = now]_vars

(***************************************************************************)
(* Properties of the notification registry.                                *)
(***************************************************************************)
\* C14: a NOTIFY that carries a SID header is answered whatever its payload:
\* async_notify does not raise, and answers 200 when the SID is registered
\* and 202 when it is not.
C14_NotifyWithSidAlwaysAnswered ==
    [][(/\ last'.op = "async_notify"
        /\ last'.phase = "resume") =>
          /\ last'.outcome = "return"
          /\ last'.status = IF registered_services[last'.notify_sid] # NoService
                            THEN 200 ELSE 202]_vars

\* C15: register_service for a SID that is already registered raises, the
\* registry keeps the service registered first, and the backlog (and every
\* state variable) is left as it was.
C15_DuplicateRegistrationRejected ==
    [][(/\ last'.op = "register_service"
        /\ registered_services[last'.notify_sid] # NoService) =>
          /\ last'.outcome = "raise"
          /\ last'.error = "RuntimeError"
          /\ last'.notified = <<>>
          /\ registered_services' = registered_services
          /\ backlog' = backlog
          /\ sv_value' = sv_value
          /\ sv_updated_at' = sv_updated_at]_vars

\* C15's case: register_service was refused for a SID that another service
\* holds, while a NOTIFY for another SID is in the backlog.
C15_Witness ==
    /\ last.op = "register_service"
    /\ last.outcome = "raise"
    /\ last.svc = "AVT"
    /\ registered_services[last.notify_sid] = "RC"
    /\ \E sid \in DispatcherSids : backlog[sid].present

\* C16: a NOTIFY without a SID header is answered 422 and changes nothing:
\* not the registry, not the backlog, no on_notify call, no variable.
C16_MissingSidRejected ==
    [][(/\ last'.op = "async_notify"
        /\ last'.notify_sid = None) =>
          /\ last'.outcome = "return"
          /\ last'.status = 422
          /\ last'.notified = <<>>
          /\ last'.callbacks = <<>>
          /\ registered_services' = registered_services
          /\ backlog' = backlog
          /\ tasks' = tasks
          /\ sv_value' = sv_value
          /\ sv_updated_at' = sv_updated_at
          /\ subscription_sid' = subscription_sid]_vars

\* C16's case: a NOTIFY without SID was answered 422 while a service is
\* registered and a NOTIFY is held in the backlog.
C16_Witness ==
    /\ last.op = "async_notify"
    /\ last.notify_sid = None
    /\ last.status = 422
    /\ \E sid \in DispatcherSids : registered_services[sid] # NoService
    /\ \E sid \in DispatcherSids : backlog[sid].present

\* C17: a NOTIFY with SID s is routed by the registry: when s is registered,
\* exactly the service registered under s gets on_notify, the backlog is
\* unchanged and the answer is 200; when s is not registered, no service gets
\* it, the payload is stored in the backlog under s and the answer is 202.
C17_NotifyRoutedBySid ==
    [][(/\ last'.op = "async_notify"
        /\ last'.phase = "resume") =>
          LET s == last'.notify_sid IN
          IF registered_services[s] # NoService
          THEN /\ Len(last'.notified) = 1
               /\ last'.notified[1].svc = registered_services[s]
               /\ last'.notified[1].sid = s
               /\ backlog' = backlog
               /\ last'.status = 200
          ELSE /\ last'.notified = <<>>
               /\ backlog'[s].present
               /\ backlog'[s].sid = s
               /\ backlog'[s].body.kind = last'.body_kind
               /\ \A other \in DOMAIN backlog \ {s} : backlog'[other] = backlog[other]
               /\ sv_value' = sv_value
               /\ sv_updated_at' = sv_updated_at
               /\ last'.status = 202]_vars

\* C18: unregister_service never raises and removes only the SID it is given;
\* for a SID that is not registered (never registered, or unregistered
\* before) it leaves the registry as it is; the backlog and the mappings of
\* the other SIDs are never affected.
C18_UnregisterIdempotent ==
    [][last'.op = "unregister_service" =>
          LET s == last'.notify_sid IN
          /\ last'.outcome = "return"
          /\ registered_services'[s] = NoService
          /\ \A other \in DOMAIN registered_services \ {s} :
                registered_services'[other] = registered_services[other]
          /\ registered_services[s] = NoService =>
                registered_services' = registered_services
          /\ backlog' = backlog
          /\ sv_value' = sv_value
          /\ sv_updated_at' = sv_updated_at
          /\ subscription_sid' = subscription_sid]_vars

\* C18's case: unregister_service was called for a SID that is not
\* registered while another SID is registered and a NOTIFY is held.
C18_Witness ==
    /\ last.op = "unregister_service"
    /\ last.svc = NoService
    /\ \E other \in DispatcherSids \ {last.notify_sid} :
          registered_services[other] # NoService
    /\ \E sid \in DispatcherSids : backlog[sid].present

\* The SIDs that have an entry in the backlog.
BacklogSids == {sid \in DOMAIN backlog : backlog[sid].present}

\* C19: the backlog is bounded: its entries do not accumulate one per
\* distinct unknown SID; with NOTIFYs for every SID the dispatcher can see,
\* some older entry has been dropped, so the backlog never holds an entry
\* for each of them.
C19_BacklogBounded == Cardinality(BacklogSids) < Cardinality(DispatcherSids)

(***************************************************************************)
(* Properties of validation.                                               *)
(***************************************************************************)
\* C20: validate_value accepts a native value if and only if it has the
\* variable's native type, is in the enumeration when one is declared, and
\* lies in [min, max], both ends included, when a range is declared; every
\* other value is refused with the validation error.  Validation stores
\* nothing.
C20_ValidateAcceptsIffDeclared ==
    [][last'.op = "validate_value" =>
          LET sv == <<last'.svc, last'.var>>
              value == last'.arg
              info == TypeInfo(sv)
          IN
          /\ last'.outcome = "return" <=> MeetsDeclaration(sv, value)
          /\ last'.outcome # "return" =>
                /\ last'.outcome = "raise"
                /\ last'.error = "MultipleInvalid"
          /\ (info.has_range /\ value.ty = "int"
                /\ value.i \in {info.min, info.max}) => last'.outcome = "return"
          /\ (info.has_range /\ value.ty = "int"
                /\ value.i \in {info.min - 1, info.max + 1}) => last'.outcome = "raise"
          /\ sv_value' = sv_value
          /\ sv_updated_at' = sv_updated_at]_vars

\* C20's case: the upper end of Volume's range was validated and accepted
\* while the variable holds the lower end.
C20_Witness ==
    /\ last.op = "validate_value"
    /\ last.var = "Volume"
    /\ last.arg = PyInt(VolumeMax)
    /\ last.outcome = "return"
    /\ sv_value[<<"RC", "Volume">>] = PyInt(VolumeMin)

(***************************************************************************)
(* Properties of the wire encoding.                                        *)
(***************************************************************************)
\* C21: for a boolean variable the wire strings "0" and "1" round-trip
\* through the native value, True and False encode to "1" and "0", and any
\* other wire string is a coercion failure that stores nothing.
C21_BoolWireRoundTrip ==
    [][(/\ last'.op \in {"value", "upnp_value"}
        /\ TypeInfo(<<last'.svc, last'.var>>).data_type_python = "bool") =>
          LET sv == <<last'.svc, last'.var>> IN
          /\ (last'.op = "upnp_value" /\ last'.upnp_arg \in {"0", "1"}) =>
                /\ last'.outcome = "return"
                /\ sv_value'[sv] = PyBool(last'.upnp_arg = "1")
                /\ get_upnp_value(sv, sv_value') = last'.upnp_arg
          /\ (last'.op = "upnp_value" /\ last'.upnp_arg \notin {"0", "1"}) =>
                /\ last'.outcome = "raise"
                /\ sv_value' = sv_value
                /\ sv_updated_at' = sv_updated_at
          /\ (last'.op = "value" /\ last'.arg.ty = "bool") =>
                /\ last'.outcome = "return"
                /\ get_upnp_value(sv, sv_value') = IF last'.arg.i = 1 THEN "1" ELSE "0"]_vars

\* The integer a base-10 string denotes, read off the table of decimal
\* strings.
Denotes(w, n) == <<w, n>> \in DecimalStrings

\* C22: for an integer variable and an integer v in its range, setting the
\* native value v makes the wire value the base-10 string of v, and setting
\* the wire value to the base-10 string of v makes the native value v; a
\* native value outside the range is refused with the validation error.
C22_IntWireAgreesWithNative ==
    [][(/\ last'.op \in {"value", "upnp_value"}
        /\ TypeInfo(<<last'.svc, last'.var>>).data_type_python = "int") =>
          LET sv == <<last'.svc, last'.var>>
              info == TypeInfo(sv)
              within(n) == info.has_range => (info.min <= n /\ n <= info.max)
          IN
          /\ (last'.op = "value" /\ last'.arg.ty = "int" /\ within(last'.arg.i)) =>
                /\ last'.outcome = "return"
                /\ sv_value'[sv] = last'.arg
                /\ sv_updated_at'[sv] = now
                /\ Denotes(get_upnp_value(sv, sv_value'), last'.arg.i)
          /\ (last'.op = "value" /\ last'.arg.ty = "int" /\ ~within(last'.arg.i)) =>
                /\ last'.outcome = "raise"
                /\ last'.error = "MultipleInvalid"
                /\ sv_value' = sv_value
                /\ sv_updated_at' = sv_updated_at
          /\ \A p \in DecimalStrings :
                (last'.op = "upnp_value" /\ last'.upnp_arg = p[1] /\ within(p[2])) =>
                   /\ last'.outcome = "return"
                   /\ sv_value'[sv] = PyInt(p[2])
                   /\ sv_updated_at'[sv] = now
                   /\ get_upnp_value(sv, sv_value') = p[1]]_vars

\* C22's case: Volume has just been set from the wire string "20", at time 2,
\* and reads back as 20 natively and "20" on the wire.
C22_Witness ==
    /\ last.op = "upnp_value"
    /\ last.var = "Volume"
    /\ last.upnp_arg = "20"
    /\ last.outcome = "return"
    /\ sv_value[<<"RC", "Volume">>] = PyInt(20)
    /\ get_upnp_value(<<"RC", "Volume">>, sv_value) = "20"
    /\ sv_updated_at[<<"RC", "Volume">>] = 2

(***************************************************************************)
(* Properties of action calls.                                             *)
(***************************************************************************)
\* The in-arguments of a call that have no supplied value, and those whose
\* supplied value does not meet the declaration of the related variable.
MissingIn(svc, action, kwargs) ==
    LET args == ActionArgs(svc, action) IN
    {i \in DOMAIN args : args[i].direction = "in" /\ ~HasKw(kwargs, args[i].name)}

InvalidIn(svc, action, kwargs) ==
    LET args == ActionArgs(svc, action) IN
    {i \in DOMAIN args :
        /\ args[i].direction = "in"
        /\ HasKw(kwargs, args[i].name)
        /\ ~MeetsDeclaration(args[i].related_state_variable,
                             KwValue(kwargs, args[i].name))}

\* C23: a call is rendered and posted only when every declared in-argument
\* has a supplied value that passes the validation of its related variable;
\* with an in-argument missing (KeyError) or invalid (MultipleInvalid) the
\* request is not created and async_call_action raises before any POST.
C23_CallNeedsValidInArguments ==
    [][(/\ last'.op = "async_call_action"
        /\ last'.phase = "call") =>
          LET missing == MissingIn(last'.svc, last'.action, last'.kwargs)
              invalid == InvalidIn(last'.svc, last'.action, last'.kwargs)
          IN
          /\ (missing # {} \/ invalid # {}) =>
                /\ last'.outcome = "raise"
                /\ last'.error \in {"KeyError", "MultipleInvalid"}
                /\ ~last'.requested
                /\ last'.request = <<>>
                /\ tasks' = tasks
          /\ (missing # {} /\ invalid = {}) => last'.error = "KeyError"
          /\ (invalid # {} /\ missing = {}) => last'.error = "MultipleInvalid"
          /\ (missing = {} /\ invalid = {}) =>
                /\ last'.outcome = "none"
                /\ last'.requested
                /\ Len(tasks') = Len(tasks) + 1]_vars

\* C23's case: SetVolume was called without DesiredVolume while another
\* call is awaiting its answer; it raised and posted nothing.
C23_Witness ==
    /\ last.op = "async_call_action"
    /\ last.phase = "call"
    /\ last.action = "SetVolume"
    /\ ~HasKw(last.kwargs, "DesiredVolume")
    /\ last.outcome = "raise"
    /\ last.error = "KeyError"
    /\ ~last.requested
    /\ Len(tasks) = 1

\* C24: the body create_request renders, read back as XML, has exactly one
\* child per declared in-argument, in declaration order and named after it,
\* whose text is the wire encoding of the supplied value, for every string
\* value, markup characters included; out-arguments and undeclared keyword
\* arguments are not rendered.
C24_RequestRoundTrip ==
    [][(/\ last'.op = "async_call_action"
        /\ last'.phase = "call"
        /\ last'.requested) =>
          LET svc == last'.svc
              ins == in_arguments(svc, last'.action)
              read == ReadRequest(last'.request)
          IN
          /\ read.well_formed
          /\ Len(read.children) = Len(ins)
          /\ \A i \in DOMAIN ins :
                /\ read.children[i][1] = ins[i].name
                /\ read.children[i][2] =
                      coerce_upnp(ins[i].related_state_variable,
                                  KwValue(last'.kwargs, ins[i].name))]_vars

\* C25: when the body of the answer holds a SOAP Fault element under the
\* SOAP Body, with or without child elements, the call fails with the
\* action-fault error (RuntimeError), no out-argument map is returned and
\* every state variable is unchanged.
C25_FaultRaisesActionFault ==
    [][(/\ last'.op = "async_call_action"
        /\ last'.phase = "resume"
        /\ last'.parsed
        /\ last'.response.kind = "soap"
        /\ last'.response.fault # "none") =>
          /\ last'.outcome = "raise"
          /\ last'.error = "RuntimeError"
          /\ ~last'.has_result
          /\ sv_value' = sv_value
          /\ sv_updated_at' = sv_updated_at]_vars

\* C26: async_call_action returns an out-argument map only when the POST
\* was answered 200; with any other status it raises RuntimeError without
\* parsing the body, and a timeout or transport error of the POST is raised
\* to the caller as it is.
C26_OnlyStatus200IsParsed ==
    [][(/\ last'.op = "async_call_action"
        /\ last'.phase = "resume") =>
          /\ last'.has_result =>
                /\ last'.http = "response"
                /\ last'.http_status = 200
                /\ last'.outcome = "return"
          /\ last'.outcome = "return" => last'.has_result
          /\ (last'.http = "response" /\ last'.http_status = 200) => last'.parsed
          /\ (last'.http = "response" /\ last'.http_status # 200) =>
                /\ last'.outcome = "raise"
                /\ last'.error = "RuntimeError"
                /\ ~last'.parsed
                /\ ~last'.has_result
          /\ last'.http = "error" =>
                /\ last'.outcome = "raise"
                /\ last'.error = last'.http_err
                /\ last'.error \in {"TimeoutError", "ClientError"}
                /\ ~last'.parsed
                /\ ~last'.has_result]_vars

\* C26's case: the POST was answered 404 with a body that would parse to
\* CurrentVolume 3; the call raised and the body was not parsed.
C26_Witness ==
    /\ last.op = "async_call_action"
    /\ last.phase = "resume"
    /\ last.action = "GetVolume"
    /\ last.http_status = 404
    /\ last.response = SoapBody("none", TRUE, << <<"CurrentVolume", "3">> >>)
    /\ last.outcome = "raise"
    /\ last.error = "RuntimeError"
    /\ ~last.parsed

\* The declared out-argument a child element of a response names, if any.
DeclaredOut(svc, action, tag) ==
    {a \in {ActionArgs(svc, action)[i] : i \in DOMAIN ActionArgs(svc, action)} :
        a.name = tag /\ a.direction = "out"}

\* C27: for a response whose children all name declared out-arguments,
\* parse_response returns a map with exactly those names, each mapped to the
\* child's text coerced to the native type of the related variable; when a
\* child names no declared out-argument (an in-argument of that name does
\* not count) it fails and returns no map.
C27_ResponseMapsOutArguments ==
    [][(/\ last'.op = "async_call_action"
        /\ last'.phase = "resume"
        /\ last'.parsed
        /\ last'.response.kind = "soap"
        /\ last'.response.fault = "none"
        /\ last'.response.has_response) =>
          LET svc == last'.svc
              action == last'.action
              children == last'.response.children
              tags == {children[i][1] : i \in DOMAIN children}
              sv_of(tag) == (CHOOSE a \in DeclaredOut(svc, action, tag) : TRUE)
                               .related_state_variable
              text_of(tag) ==
                  children[CHOOSE i \in DOMAIN children :
                              /\ children[i][1] = tag
                              /\ \A j \in DOMAIN children :
                                    children[j][1] = tag => j <= i][2]
          IN
          IF \E tag \in tags : DeclaredOut(svc, action, tag) = {}
          THEN /\ last'.outcome = "raise"
               /\ last'.error = "AttributeError"
               /\ ~last'.has_result
          ELSE IF \A i \in DOMAIN children :
                     Coercible(sv_of(children[i][1]), children[i][2])
          THEN /\ last'.outcome = "return"
               /\ last'.has_result
               /\ last'.result =
                     {<<tag, WireValue(sv_of(tag), text_of(tag))>> : tag \in tags}
          ELSE /\ last'.outcome = "raise"
               /\ ~last'.has_result]_vars

\* C27's case: GetVolume was answered with CurrentVolume 150 and returned
\* the map {CurrentVolume: 150}, while Volume itself holds 10.
C27_Witness ==
    /\ last.op = "async_call_action"
    /\ last.phase = "resume"
    /\ last.action = "GetVolume"
    /\ last.response = SoapBody("none", TRUE, << <<"CurrentVolume", "150">> >>)
    /\ last.outcome = "return"
    /\ last.result = {<<"CurrentVolume", PyInt(150)>>}
    /\ sv_value[<<"RC", "Volume">>] = PyInt(10)

\* C28: no step of async_call_action, however it ends, changes the value or
\* the timestamp of a state variable.
C28_CallLeavesStateVariables ==
    [][last'.op = "async_call_action" =>
          /\ sv_value' = sv_value
          /\ sv_updated_at' = sv_updated_at]_vars

\* C28's case: Volume was set to 10 at time 1; at time 2 GetVolume returned
\* the map {CurrentVolume: 3} and Volume and its timestamp are as they were.
C28_Witness ==
    /\ last.op = "async_call_action"
    /\ last.phase = "resume"
    /\ last.outcome = "return"
    /\ last.result = {<<"CurrentVolume", PyInt(3)>>}
    /\ sv_value[<<"RC", "Volume">>] = PyInt(10)
    /\ sv_updated_at[<<"RC", "Volume">>] = 1
    /\ now = 2

(***************************************************************************)
(* Properties of concurrent subscription calls.                            *)
(***************************************************************************)
\* C29: at most one subscription of a service is in flight or active: an
\* async_subscribe that starts while another async_subscribe of the service
\* awaits its answer is rejected and sends no second SUBSCRIBE, and a stored
\* subscription id is never overwritten by the SID of a second answer.
C29_OneSubscribeInFlight ==
    [][last'.op = "async_subscribe" =>
          /\ (last'.phase = "call" /\ InFlight("async_subscribe", last'.svc)) =>
                /\ last'.outcome = "raise"
                /\ ~last'.requested
                /\ tasks' = tasks
          /\ (last'.phase = "resume" /\ Truthy(subscription_sid[last'.svc])) =>
                subscription_sid'[last'.svc] = subscription_sid[last'.svc]]_vars

(***************************************************************************)
(* Properties of construction.                                             *)
(***************************************************************************)
\* An SCPD from which a service can be built: every dataType is one of the
\* known primitive types and every argument refers to a declared variable.
Sound(scpd) ==
    /\ \A i \in DOMAIN scpd.vars :
          scpd.vars[i][2] \in {"i2", "i4", "ui2", "ui4", "string", "boolean"}
    /\ \A i \in DOMAIN scpd.actions :
          \A j \in DOMAIN scpd.actions[i][2] :
             \E k \in DOMAIN scpd.vars : scpd.vars[k][1] = scpd.actions[i][2][j]

\* A service in which every variable and action its SCPD declares was built.
FullyBuilt(service) ==
    /\ service.scpd.kind = "scpd"
    /\ Sound(service.scpd)
    /\ {v[1] : v \in service.state_variables} =
          {service.scpd.vars[i][1] : i \in DOMAIN service.scpd.vars}
    /\ service.actions =
          {service.scpd.actions[i][1] : i \in DOMAIN service.scpd.actions}

\* C30: construction is all or nothing: create_service and
\* async_create_services return only fully built services, one per service
\* of the description, or raise and return nothing; an unknown dataType, a
\* reference to an undeclared variable, a body that is not well-formed and a
\* failed fetch each raise.
C30_ConstructionAllOrNothing ==
    [][last'.op \in {"create_service", "async_create_services"} =>
          /\ last'.outcome \in {"raise", "none"} => last'.services = <<>>
          /\ (last'.op = "async_create_services" /\ last'.outcome = "return") =>
                [i \in DOMAIN last'.services |-> last'.services[i].svc]
                   \in {d.services : d \in DeviceDocs}
          /\ last'.outcome = "return" =>
                \A i \in DOMAIN last'.services : FullyBuilt(last'.services[i])
          /\ (last'.op = "create_service" /\ last'.outcome = "return") =>
                /\ Len(last'.services) = 1
                /\ last'.services[1].scpd = last'.doc
          /\ (last'.phase = "resume" /\ last'.http = "error") =>
                /\ last'.outcome = "raise"
                /\ last'.error = last'.http_err
          /\ (last'.phase = "resume" /\ last'.http = "response"
                /\ last'.doc.kind = "xml_error") =>
                /\ last'.outcome = "raise"
                /\ last'.error = "ParseError"
          /\ (last'.doc.kind = "scpd" /\ ~Sound(last'.doc)) =>
                /\ last'.outcome = "raise"
                /\ last'.error = "KeyError"
          /\ (last'.op = "async_create_services" /\ last'.outcome = "raise") =>
                Len(tasks') = Len(tasks) - 1]_vars

\* C30's case: the SCPD of the first service was sound and built, the SCPD
\* of the second declares an unknown dataType; async_create_services raised
\* and returned no service.
C30_Witness ==
    /\ last.op = "async_create_services"
    /\ last.phase = "resume"
    /\ last.svc = "AVT"
    /\ last.doc = UnknownTypeScpd
    /\ last.outcome = "raise"
    /\ last.error = "KeyError"
    /\ last.services = <<>>


(***************************************************************************)
(* Properties of the batch, the backlog and the teardown.                  *)
(***************************************************************************)
\* C31: the batch on_notify hands to the change callback lists exactly the
\* variables whose new value this NOTIFY stored; a variable whose value
\* failed validation and was skipped is not in the batch.
C31_BatchHoldsOnlyStoredVariables ==
    [][(/\ last'.op = "on_notify"
        /\ on_state_variable_change[last'.svc]
        /\ last'.notify_sid = subscription_sid[last'.svc]
        /\ last'.notified[1].body.kind = "last_change"
        /\ Faultless(last'.svc, last'.notified[1].body)) =>
          LET svc == last'.svc
              body == last'.notified[1].body
          IN
          /\ Len(last'.callbacks) = 1
          /\ \A name \in Named(body) :
                (\E k \in DOMAIN last'.callbacks[1] : last'.callbacks[1][k] = name)
                    <=> AcceptedEntries(svc, body, name) # {}]_vars


\* C32: a NOTIFY held for a SID that is not registered stays held when a
\* later NOTIFY for the same SID is held too (answered 202): no pending NOTIFY
\* is lost or overwritten by a later one, so that register_service can
\* replay all of them in arrival order.
C32_PendingNotifyNotOverwritten ==
    [][(/\ last'.op = "async_notify"
        /\ last'.phase = "resume"
        /\ last'.status = 202
        /\ backlog[last'.notify_sid].present) =>
          backlog'[last'.notify_sid] = backlog[last'.notify_sid]]_vars


\* C33: an async_unsubscribe without force that fails leaves the subscription
\* id as it is: a timeout or transport error is raised to the caller, an
\* answer other than 200 returns without raising, and in both cases the
\* service holds the same subscription id as before, the active one the
\* request carried unless another call changed it meanwhile.
C33_FailedUnsubscribeKeepsSid ==
    [][(/\ last'.op = "async_unsubscribe"
        /\ last'.phase = "resume"
        /\ ~last'.force
        /\ (last'.http = "error" \/ last'.http_status # 200)) =>
          LET svc == last'.svc IN
          /\ last'.http = "error" =>
                (last'.outcome = "raise" /\ last'.error = last'.http_err)
          /\ last'.http = "response" =>
                (last'.outcome = "return" /\ last'.error = "")
          /\ subscription_sid'[svc] = subscription_sid[svc]
          /\ Truthy(last'.req_sid)
          /\ subscription_sid[svc] = last'.req_sid =>
                (subscription_sid'[svc] = last'.req_sid /\ Truthy(subscription_sid'[svc]))]_vars

C33_Witness ==
    /\ last.op = "async_unsubscribe"
    /\ last.phase = "resume"
    /\ ~last.force
    /\ last.http = "response"
    /\ last.http_status # 200
    /\ last.outcome = "return"
    /\ last.req_sid = "uuid:1"
    /\ subscription_sid["RC"] = "uuid:1"


C35_UnsubscribedServiceIgnoresNotify ==
    [][(/\ last'.op = "on_notify"
        /\ ~Truthy(subscription_sid[last'.svc])) =>
          /\ sv_value' = sv_value
          /\ sv_updated_at' = sv_updated_at
          /\ last'.callbacks = <<>>
          /\ last'.outcome = "return"]_vars


\* C36: with calls of one Action overlapping on a service, each call returns
\* the out-argument values of its own response: whatever the shared _value
\* of an Argument held when the call resumed (the value another call's
\* response left there), every entry of the returned map is the coerced text
\* of a child of this call's response, and the Argument holds that value
\* when the call returns.
C36_CallReturnsItsOwnResponse ==
    [][(/\ last'.op = "async_call_action"
        /\ last'.phase = "resume"
        /\ last'.has_result) =>
          LET svc == last'.svc
              action == last'.action
              children == last'.response.children
              sv_of(tag) == (CHOOSE a \in DeclaredOut(svc, action, tag) : TRUE)
                               .related_state_variable
              latest(tag) == CHOOSE i \in DOMAIN children :
                                /\ children[i][1] = tag
                                /\ \A j \in DOMAIN children :
                                      children[j][1] = tag => j <= i
          IN
          /\ \A pair \in last'.result :
                /\ \E i \in DOMAIN children : children[i][1] = pair[1]
                /\ pair[2] = WireValue(sv_of(pair[1]), children[latest(pair[1])][2])
                /\ argument_value'[<<svc, action, pair[1]>>] = pair[2]
          /\ \A i \in DOMAIN children : \E pair \in last'.result : pair[1] = children[i][1]
          /\ \A slot \in ArgSlots :
                (slot[1] # svc \/ slot[2] # action
                   \/ \A i \in DOMAIN children : children[i][1] # slot[3]) =>
                    argument_value'[slot] = argument_value[slot]]_vars

\* C36's case: two calls of GetVolume overlap; one of them, answered 150,
\* has returned 150 while the other is still waiting for its answer.
C36_Witness ==
    /\ last.op = "async_call_action"
    /\ last.phase = "resume"
    /\ last.action = "GetVolume"
    /\ last.result = {<<"CurrentVolume", PyInt(150)>>}
    /\ argument_value[<<"RC", "GetVolume", "CurrentVolume">>] = PyInt(150)
    /\ \E t \in TaskIds :
          /\ tasks[t].op = "async_call_action"
          /\ tasks[t].svc = "RC"
          /\ tasks[t].action = "GetVolume"


\* C37: between the operations of the notification registry no SID is both
\* registered and present in the backlog: a NOTIFY for a registered SID adds
\* no entry, and register_service leaves no entry for its SID behind, also
\* when the replayed on_notify raises.
C37_RegisteredSidNotInBacklog ==
    \A sid \in Sids :
        ~(IsRegistered(registered_services, sid) /\ backlog[sid].present)


\* C38: NOTIFYs for one registered SID whose handling overlaps reach the
\* service in the order the requests were received: no NOTIFY is handed to
\* on_notify while a NOTIFY with another body, received earlier for the same
\* SID, is still waiting for its body to be read (the NOTIFYs meant are
\* those the subscribed service accepts).
C38_NotifiesAppliedInArrivalOrder ==
    [][(/\ last'.op = "async_notify"
        /\ last'.phase = "resume"
        /\ last'.notified # <<>>
        /\ last'.notified[1].passed) =>
          ~\E t \in TaskIds, u \in TaskIds :
              /\ t < u
              /\ tasks' = Remove(tasks, u)
              /\ tasks[t].op = "async_notify"
              /\ tasks[u].op = "async_notify"
              /\ tasks[t].hdr_sid = tasks[u].hdr_sid
              /\ tasks[t].body # tasks[u].body]_vars


(***************************************************************************)
(* DlnaDmrDevice of the single-file component: async_connect with          *)
(* _async_init_services, and async_disconnect, which _async_on_hass_stop   *)
(* and a failed poll of async_update both run.                             *)
(***************************************************************************)
\* The services of the device in the order its dict lists them.
DeviceServices == <<"RC", "AVT">>

\* The loop of async_disconnect over the services in pending, up to its next
\* await: a service holding a SID is unregistered from the view and its
\* forced async_unsubscribe runs up to the UNSUBSCRIBE request; a service
\* holding none is passed over.
RECURSIVE DisconnectLoop(_, _, _)
DisconnectLoop(pending, sids, registry) ==
    IF pending = <<>>
    THEN [done |-> TRUE, svc |-> NoService, pending |-> <<>>, req_sid |-> None,
          sids |-> sids, registry |-> registry]
    ELSE LET service == Head(pending)
             sid == sids[service]
         IN
         IF Truthy(sid)
         THEN [done |-> FALSE, svc |-> service, pending |-> Tail(pending),
               req_sid |-> sid,
               sids |-> [sids EXCEPT ![service] = ForceClear(TRUE, sid)],
               registry |-> Unregistered(registry, sid)]
         ELSE DisconnectLoop(Tail(pending), sids, registry)

\* _async_init_services builds new service objects.  The model has one set
\* of them, so a connect is taken when they are as new: no SID, no
\* registration, no coroutine working on them.
FreshServices ==
    /\ tasks = <<>>
    /\ \A svc \in Services : subscription_sid[svc] = None
    /\ \A sid \in Sids : ~IsRegistered(registered_services, sid)

\* async_connect up to the await of factory.async_create_services: nothing
\* to do when _services is filled.
AsyncConnectCall ==
    LET o == Obs("async_connect", NoService) IN
    /\ UNCHANGED <<subscription_sid, on_state_variable_change, argument_value,
                   device_vars, sv_value, sv_updated_at, now,
                   registered_services, backlog>>
    /\ IF dmr_services
       THEN /\ tasks' = tasks
            /\ last' = o
       ELSE /\ FreshServices
            /\ tasks' = Append(tasks,
                  [Task("async_connect", NoService) EXCEPT !.phase = "create"])
            /\ last' = [o EXCEPT !.outcome = "none", !.requested = TRUE]

\* The loop of _async_init_services from the services in pending on, up to
\* the SUBSCRIBE request of the first of them: the callback is installed and
\* async_subscribe called.
InitServicesNext(t, o, pending, sids) ==
    IF pending = <<>>
    THEN /\ tasks' = Remove(tasks, t)
         /\ on_state_variable_change' = on_state_variable_change
         /\ last' = [o EXCEPT !.outcome = "return"]
    ELSE LET service == Head(pending) IN
         /\ on_state_variable_change' =
               [on_state_variable_change EXCEPT ![service] = TRUE]
         /\ IF AlreadySubscribed(sids[service])
            THEN /\ tasks' = Remove(tasks, t)
                 /\ last' = [o EXCEPT !.outcome = "raise",
                                      !.error = "AlreadySubscribed"]
            ELSE /\ tasks' = [tasks EXCEPT ![t] =
                       [@ EXCEPT !.phase = "subscribe", !.svc = service,
                                 !.pending = Tail(pending)]]
                 /\ last' = [o EXCEPT !.outcome = "none", !.requested = TRUE]

\* _async_init_services once the factory answered: any exception empties
\* _services; else _services is filled and the services are subscribed one
\* after the other.
AsyncConnectCreated(t, created) ==
    LET o == [Obs("async_connect", NoService) EXCEPT !.phase = "resume"] IN
    /\ t \in TaskIds
    /\ tasks[t].op = "async_connect"
    /\ tasks[t].phase = "create"
    /\ UNCHANGED <<subscription_sid, argument_value, dmr_device, is_connected,
                   sv_value, sv_updated_at, now, registered_services, backlog>>
    /\ IF ~created
       THEN /\ dmr_services' = FALSE
            /\ on_state_variable_change' = on_state_variable_change
            /\ tasks' = Remove(tasks, t)
            /\ last' = [o EXCEPT !.outcome = "return"]
       ELSE /\ dmr_services' = TRUE
            /\ InitServicesNext(t, o, DeviceServices, subscription_sid)

\* _async_init_services once a SUBSCRIBE is answered: the SID is stored by
\* async_subscribe and registered in the view (`if sid:`), and the loop goes
\* on to the next service.
AsyncConnectSubscribed(t, r) ==
    LET svc == tasks[t].svc
        x == SubscribeResult(r)
        sids == [subscription_sid EXCEPT ![svc] = IF x.store THEN x.ret ELSE @]
        o == [Obs("async_connect", svc) EXCEPT
                !.phase = "resume", !.http = r.kind, !.http_status = r.status,
                !.http_sid = r.sid, !.http_err = r.err, !.ret = x.ret,
                !.pre_sid = subscription_sid[svc], !.post_sid = sids[svc]]
    IN
    /\ t \in TaskIds
    /\ tasks[t].op = "async_connect"
    /\ tasks[t].phase = "subscribe"
    /\ subscription_sid' = sids
    /\ UNCHANGED <<argument_value, device_vars, sv_value, sv_updated_at, now,
                   backlog>>
    /\ IF x.error # ""
       THEN /\ UNCHANGED <<registered_services, on_state_variable_change>>
            /\ tasks' = Remove(tasks, t)
            /\ last' = [o EXCEPT !.outcome = "raise", !.error = x.error]
       ELSE IF Truthy(x.ret) /\ IsRegistered(registered_services, x.ret)
       THEN /\ UNCHANGED <<registered_services, on_state_variable_change>>
            /\ tasks' = Remove(tasks, t)
            /\ last' = [o EXCEPT !.outcome = "raise", !.error = "RuntimeError"]
       ELSE /\ registered_services' =
                  IF Truthy(x.ret)
                  THEN [registered_services EXCEPT ![x.ret] = svc]
                  ELSE registered_services
            /\ InitServicesNext(t, o, tasks[t].pending, sids)

\* async_disconnect up to its first await, or to its end when no service
\* holds a SID: `self._services = {}`.
AsyncDisconnectCall ==
    LET l == DisconnectLoop(IF dmr_services THEN DeviceServices ELSE <<>>,
                            subscription_sid, registered_services)
        o == [Obs("async_disconnect", l.svc) EXCEPT !.force = TRUE,
                                                     !.req_sid = l.req_sid]
    IN
    /\ subscription_sid' = l.sids
    /\ registered_services' = l.registry
    /\ UNCHANGED <<on_state_variable_change, argument_value, dmr_device,
                   is_connected, sv_value, sv_updated_at, now, backlog>>
    /\ IF l.done
       THEN /\ dmr_services' = FALSE
            /\ tasks' = tasks
            /\ last' = o
       ELSE /\ CanStart
            /\ dmr_services' = dmr_services
            /\ tasks' = Append(tasks,
                  [Task("async_disconnect", l.svc) EXCEPT
                     !.force = TRUE, !.local_sid = l.req_sid,
                     !.pending = l.pending, !.phase = "unsubscribe"])
            /\ last' = [o EXCEPT !.outcome = "none", !.requested = TRUE]

\* async_disconnect once an UNSUBSCRIBE is answered: the forced
\* async_unsubscribe ends without raising, and the loop goes on.
AsyncDisconnectResume(t, r) ==
    LET svc == tasks[t].svc
        x == UnsubscribeResult(TRUE, r)
        sids == [subscription_sid EXCEPT ![svc] = IF x.clear THEN None ELSE @]
        l == DisconnectLoop(tasks[t].pending, sids, registered_services)
        o == [Obs("async_disconnect", svc) EXCEPT
                !.phase = "resume", !.force = TRUE,
                !.req_sid = tasks[t].local_sid,
                !.http = r.kind, !.http_status = r.status, !.http_err = r.err]
    IN
    /\ t \in TaskIds
    /\ tasks[t].op = "async_disconnect"
    /\ UNCHANGED <<on_state_variable_change, argument_value, dmr_device,
                   is_connected, sv_value, sv_updated_at, now, backlog>>
    /\ IF x.error # ""
       THEN /\ subscription_sid' = sids
            /\ UNCHANGED <<registered_services, dmr_services>>
            /\ tasks' = Remove(tasks, t)
            /\ last' = [o EXCEPT !.outcome = "raise", !.error = x.error]
       ELSE /\ subscription_sid' = l.sids
            /\ registered_services' = l.registry
            /\ IF l.done
               THEN /\ dmr_services' = FALSE
                    /\ tasks' = Remove(tasks, t)
                    /\ last' = o
               ELSE /\ dmr_services' = dmr_services
                    /\ tasks' = [tasks EXCEPT ![t] =
                          [@ EXCEPT !.svc = l.svc, !.local_sid = l.req_sid,
                                    !.pending = l.pending]]
                    /\ last' = [o EXCEPT !.outcome = "none", !.requested = TRUE]

(***************************************************************************)
(* The device connecting once and being torn down, by the stop of Home     *)
(* Assistant and by a failed poll, possibly at the same time and while the *)
(* services are still being subscribed.  The renderer answers SUBSCRIBE    *)
(* and UNSUBSCRIBE as it likes.                                            *)
(***************************************************************************)
NextTeardown ==
    \/ AsyncConnectCall
    \/ \E t \in 1 .. MaxTasks, created \in BOOLEAN : AsyncConnectCreated(t, created)
    \/ \E t \in 1 .. MaxTasks, r \in HttpResponses(DispatcherSids) \cup HttpErrors :
          AsyncConnectSubscribed(t, r)
    \/ AsyncDisconnectCall
    \/ \E t \in 1 .. MaxTasks, r \in HttpResponses({}) \cup HttpErrors :
          AsyncDisconnectResume(t, r)

SpecTeardown == Init /\ [][NextTeardown]_vars

\* C39: when async_disconnect completes, whatever each UNSUBSCRIBE was
\* answered (200, another status, a timeout or a transport error), no
\* service of the device holds an active subscription id, none of their SIDs
\* is registered in the view and the device is not connected (_services is
\* empty: state off); and at no point of the teardown, its awaits included,
\* is a SID registered for a service that does not hold it.
C39_DisconnectLeavesNothingSubscribed ==
    /\ [][(last'.op = "async_disconnect" /\ last'.outcome = "return") =>
             /\ \A svc \in Services : ~Truthy(subscription_sid'[svc])
             /\ \A sid \in Sids : ~IsRegistered(registered_services', sid)
             /\ ~dmr_services']_vars
    /\ [](\A sid \in Sids :
             IsRegistered(registered_services, sid) =>
                subscription_sid[registered_services[sid]] = sid)


(***************************************************************************)
(* DlnaDmrDevice of home_assistant_dlna_dmr: async_update with             *)
(* _async_init_device, the poll and async_unsubscribe_all.                 *)
(***************************************************************************)
\* The loop of async_unsubscribe_all up to its next await: a service holding
\* a SID is unregistered and its forced async_unsubscribe started.
UnsubscribeAllLoop(pending, sids, registry) == DisconnectLoop(pending, sids, registry)

\* What the awaits of async_update deliver: the device description is fetched
\* (no state comes with it) and GetTransportInfo answers the state of the
\* renderer, or the request times out or the transport fails.
Polled(state) == [err |-> "", state |-> state]

Failed(err) == [err |-> err, state |-> PyNone]

\* async_update up to its first await: the creation of the device when there
\* is none yet, else the poll.  Home Assistant runs one async_update of an
\* entity at a time.
AsyncUpdateCall ==
    /\ ~\E t \in TaskIds : tasks[t].op = "async_update"
    /\ CanStart
    /\ tasks' = Append(tasks,
          [Task("async_update", NoService) EXCEPT
             !.phase = IF dmr_device THEN "poll" ELSE "create"])
    /\ last' = [Obs("async_update", NoService) EXCEPT
                  !.outcome = "none", !.requested = TRUE]
    /\ UNCHANGED <<subscription_sid, on_state_variable_change, argument_value,
                   device_vars, sv_value, sv_updated_at, now,
                   registered_services, backlog>>

\* The loop of _async_init_device from the services in pending on, up to the
\* SUBSCRIBE request of the first of them; after the last one async_update
\* goes on to the poll.
InitDeviceNext(t, o, pending, sids) ==
    IF pending = <<>>
    THEN /\ tasks' = [tasks EXCEPT ![t] =
               [@ EXCEPT !.phase = "poll", !.svc = NoService]]
         /\ on_state_variable_change' = on_state_variable_change
         /\ last' = [o EXCEPT !.outcome = "none", !.requested = TRUE]
    ELSE LET service == Head(pending) IN
         /\ on_state_variable_change' =
               [on_state_variable_change EXCEPT ![service] = TRUE]
         /\ IF AlreadySubscribed(sids[service])
            THEN /\ tasks' = Remove(tasks, t)
                 /\ last' = [o EXCEPT !.outcome = "raise",
                                      !.error = "AlreadySubscribed"]
            ELSE /\ tasks' = [tasks EXCEPT ![t] =
                       [@ EXCEPT !.phase = "subscribe", !.svc = service,
                                 !.pending = Tail(pending)]]
                 /\ last' = [o EXCEPT !.outcome = "none", !.requested = TRUE]

\* async_update once async_create_device answered: a timeout or transport
\* error ends the update quietly; else _device is set and the services are
\* subscribed one after the other.
AsyncUpdateCreated(t, r) ==
    LET o == [Obs("async_update", NoService) EXCEPT
                !.phase = "resume", !.http_err = r.err]
    IN
    /\ t \in TaskIds
    /\ tasks[t].op = "async_update"
    /\ tasks[t].phase = "create"
    /\ UNCHANGED <<subscription_sid, argument_value, dmr_services, is_connected,
                   sv_value, sv_updated_at, now, registered_services, backlog>>
    /\ IF r.err # ""
       THEN /\ dmr_device' = dmr_device
            /\ on_state_variable_change' = on_state_variable_change
            /\ tasks' = Remove(tasks, t)
            /\ last' = [o EXCEPT !.outcome = "return"]
       ELSE /\ dmr_device' = TRUE
            /\ InitDeviceNext(t, o, DeviceServices, subscription_sid)

\* async_update once a SUBSCRIBE of _async_init_device is answered: a timeout
\* or transport error ends the update quietly; else the SID is stored and
\* registered in the view, which replays a NOTIFY held for it, and the loop
\* goes on.
AsyncUpdateSubscribed(t, r) ==
    LET svc == tasks[t].svc
        x == SubscribeResult(r)
        sids == [subscription_sid EXCEPT ![svc] = IF x.store THEN x.ret ELSE @]
        item == backlog[x.ret]
        n == on_notify(svc, item.sid, item.body, sids[svc],
                       on_state_variable_change[svc], sv_value, sv_updated_at, now)
        o == [Obs("async_update", svc) EXCEPT
                !.phase = "resume", !.http = r.kind, !.http_status = r.status,
                !.http_sid = r.sid, !.http_err = r.err, !.ret = x.ret,
                !.pre_sid = subscription_sid[svc], !.post_sid = sids[svc]]
    IN
    /\ t \in TaskIds
    /\ tasks[t].op = "async_update"
    /\ tasks[t].phase = "subscribe"
    /\ subscription_sid' = sids
    /\ UNCHANGED <<argument_value, device_vars, now>>
    /\ IF x.error # ""
       THEN /\ UNCHANGED <<registered_services, backlog, sv_value, sv_updated_at,
                           on_state_variable_change>>
            /\ tasks' = Remove(tasks, t)
            /\ last' = [o EXCEPT !.outcome = "return", !.error = x.error]
       ELSE IF ~Truthy(x.ret)
       THEN /\ UNCHANGED <<registered_services, backlog, sv_value, sv_updated_at>>
            /\ InitDeviceNext(t, o, tasks[t].pending, sids)
       ELSE IF IsRegistered(registered_services, x.ret)
       THEN /\ UNCHANGED <<registered_services, backlog, sv_value, sv_updated_at,
                           on_state_variable_change>>
            /\ tasks' = Remove(tasks, t)
            /\ last' = [o EXCEPT !.outcome = "raise", !.error = "RuntimeError"]
       ELSE /\ registered_services' = [registered_services EXCEPT ![x.ret] = svc]
            /\ IF ~item.present
               THEN /\ UNCHANGED <<backlog, sv_value, sv_updated_at>>
                    /\ InitDeviceNext(t, o, tasks[t].pending, sids)
               ELSE /\ sv_value' = n.value
                    /\ sv_updated_at' = n.updated_at
                    /\ IF n.err # ""
                       THEN /\ backlog' = backlog
                            /\ on_state_variable_change' = on_state_variable_change
                            /\ tasks' = Remove(tasks, t)
                            /\ last' = [o EXCEPT !.outcome = "raise", !.error = n.err]
                       ELSE /\ backlog' = [backlog EXCEPT ![x.ret] = NoItem]
                            /\ InitDeviceNext(t, o, tasks[t].pending, sids)

\* async_unsubscribe_all from the services in pending on: up to the next
\* UNSUBSCRIBE request, or to its end.
UnsubscribeAllNext(t, o, pending, sids) ==
    LET l == UnsubscribeAllLoop(pending, sids, registered_services) IN
    /\ subscription_sid' = l.sids
    /\ registered_services' = l.registry
    /\ IF l.done
       THEN /\ tasks' = Remove(tasks, t)
            /\ last' = [o EXCEPT !.outcome = "return"]
       ELSE /\ tasks' = [tasks EXCEPT ![t] =
                  [@ EXCEPT !.phase = "unsubscribe", !.svc = l.svc,
                            !.force = TRUE, !.local_sid = l.req_sid,
                            !.pending = l.pending]]
            /\ last' = [o EXCEPT !.outcome = "none", !.requested = TRUE,
                                 !.req_sid = l.req_sid]

\* async_update once GetTransportInfo is answered: TransportState is set and
\* the update sleeps; a timeout or transport error marks the device
\* disconnected and unsubscribes all its services.
AsyncUpdatePolled(t, r) ==
    LET sv == <<"AVT", "TransportState">>
        v == ValueSetter(sv, r.state, Current(sv), now)
        o == [Obs("async_update", "AVT") EXCEPT
                !.phase = "resume", !.http_err = r.err, !.var = sv[2],
                !.arg = r.state]
    IN
    /\ t \in TaskIds
    /\ tasks[t].op = "async_update"
    /\ tasks[t].phase = "poll"
    /\ UNCHANGED <<on_state_variable_change, argument_value, dmr_services,
                   dmr_device, now, backlog>>
    /\ IF r.err # ""
       THEN /\ is_connected' = FALSE
            /\ UNCHANGED <<sv_value, sv_updated_at>>
            /\ UnsubscribeAllNext(t, o, DeviceServices, subscription_sid)
       ELSE /\ UNCHANGED <<is_connected, subscription_sid, registered_services>>
            /\ sv_value' = [sv_value EXCEPT ![sv] = v.value]
            /\ sv_updated_at' = [sv_updated_at EXCEPT ![sv] = v.updated_at]
            /\ IF v.ok
               THEN /\ tasks' = [tasks EXCEPT ![t] = [@ EXCEPT !.phase = "sleep"]]
                    /\ last' = [o EXCEPT !.outcome = "none", !.stored = TRUE]
               ELSE /\ tasks' = Remove(tasks, t)
                    /\ last' = [o EXCEPT !.outcome = "raise", !.error = v.err]

\* async_update after `yield from asyncio.sleep(0.25)`: the device is
\* connected.
AsyncUpdateSlept(t) ==
    /\ t \in TaskIds
    /\ tasks[t].op = "async_update"
    /\ tasks[t].phase = "sleep"
    /\ is_connected' = TRUE
    /\ tasks' = Remove(tasks, t)
    /\ last' = [Obs("async_update", NoService) EXCEPT
                  !.phase = "resume", !.outcome = "return"]
    /\ UNCHANGED <<subscription_sid, on_state_variable_change, argument_value,
                   dmr_services, dmr_device, sv_value, sv_updated_at, now,
                   registered_services, backlog>>

\* async_unsubscribe_all once an UNSUBSCRIBE is answered: the forced
\* async_unsubscribe ends without raising and the loop goes on.
AsyncUnsubscribeAllResume(t, r) ==
    LET svc == tasks[t].svc
        x == UnsubscribeResult(TRUE, r)
        sids == [subscription_sid EXCEPT ![svc] = IF x.clear THEN None ELSE @]
        o == [Obs("async_update", svc) EXCEPT
                !.phase = "resume", !.force = TRUE,
                !.http = r.kind, !.http_status = r.status, !.http_err = r.err]
    IN
    /\ t \in TaskIds
    /\ tasks[t].op = "async_update"
    /\ tasks[t].phase = "unsubscribe"
    /\ UNCHANGED <<on_state_variable_change, argument_value, device_vars,
                   sv_value, sv_updated_at, now, backlog>>
    /\ UnsubscribeAllNext(t, o, tasks[t].pending, sids)

(***************************************************************************)
(* The device polled by Home Assistant while the renderer comes and goes:  *)
(* when it answers, it answers properly (the description is served, each   *)
(* SUBSCRIBE gets 200 and the SID of the service, the poll reports a       *)
(* stopped renderer, so that no position poll follows); when it does not,  *)
(* the fetch or the poll times out or the transport fails.  An            *)
(* UNSUBSCRIBE is answered as the renderer likes.                          *)
(***************************************************************************)
Subscribed(svc) ==
    [kind |-> "response", status |-> 200, err |-> "",
     sid |-> IF svc = "RC" THEN "uuid:1" ELSE "uuid:2"]

NextReconnect ==
    \/ Tick
    \/ AsyncUpdateCall
    \/ \E t \in 1 .. MaxTasks,
          r \in {Polled(PyNone), Failed("TimeoutError"), Failed("ClientError")} :
          AsyncUpdateCreated(t, r)
    \/ \E t \in 1 .. MaxTasks :
          AsyncUpdateSubscribed(t, Subscribed(tasks[t].svc))
    \/ \E t \in 1 .. MaxTasks,
          r \in {Polled(PyStr("STOPPED")), Failed("TimeoutError"),
                 Failed("ClientError")} :
          AsyncUpdatePolled(t, r)
    \/ \E t \in 1 .. MaxTasks : AsyncUpdateSlept(t)
    \/ \E t \in 1 .. MaxTasks, r \in HttpResponses({}) \cup HttpErrors :
          AsyncUnsubscribeAllResume(t, r)

SpecReconnect == Init /\ [][NextReconnect]_vars

\* C40: an async_update that succeeds marks the device connected with its
\* services subscribed and their SIDs registered in the view, also when an
\* earlier async_update hit a timeout or transport error, marked the device
\* disconnected and force-unsubscribed the services: the later update
\* re-subscribes them, so that events are delivered again.
C40_SuccessfulUpdateResubscribes ==
    [][(/\ last'.op = "async_update"
        /\ last'.outcome = "return"
        /\ is_connected') =>
          \A i \in DOMAIN DeviceServices :
             LET svc == DeviceServices[i] IN
             /\ Truthy(subscription_sid'[svc])
             /\ registered_services'[subscription_sid'[svc]] = svc]_vars

=============================================================================
